---- MODULE Spec2Model ----
(***************************************************************************)
(* Token lifecycle engine of the consumer auth service: refresh-token      *)
(* sessions, password-reset tokens and email-verification tokens, and the  *)
(* account fields they change.                                             *)
(*                                                                         *)
(* The committed database is the four tables users, refresh_tokens,        *)
(* reset_tokens and verification_tokens.  A request handler is a process   *)
(* that moves from one database round trip (an await) to the next; what it *)
(* has changed in its SQLAlchemy session but not yet committed lives in    *)
(* its locals and reaches the tables only in its commit step.  A handler   *)
(* that stops before its commit (Crash) leaves the tables as they were.    *)
(*                                                                         *)
(* The clock counts hours.  It advances in coarse steps, and only between   *)
(* requests: a request is short against a step of the clock.               *)
(***************************************************************************)
EXTENDS Integers, FiniteSets, Sequences, TLC

\* ---------------------------------------------------------------- bounds

\* the clock of the action-token runs: its step and its last value, in hours
TickHours == 12
MaxHours == 36
\* the clock of the session runs: its step and its last value, in days
TickDays == 15
MaxDays == 45
\* how many token strings each generator may hand out in one run
MaxRefreshTokens == 3
MaxResetTokens == 2
MaxVerificationTokens == 2
\* the clock of the access-token runs: its step and its last value, in minutes
TickMinutes == 15
MaxMinutes == 45
\* the last value of the limiter's clock, in milliseconds
MaxMillis == 1350000
\* the most limiter tasks waiting for the event loop at a time
MaxTasks == 2

\* ------------------------------------------------------- program constants

\* lifetime of an action token, in hours
expiry_hours == 24
\* lifetime of a session, in days
REFRESH_TOKEN_EXPIRE_DAYS == 30

\* bcrypt reads at most this many bytes of a password
BcryptMaxBytes == 72
\* settings.ACCESS_TOKEN_EXPIRE_MINUTES
ACCESS_TOKEN_EXPIRE_MINUTES == 30

\* ------------------------------------------------------------ input sets

Procs == {1, 2}
Emails == {"a@x.com", "A@x.com"}
\* passwords as byte strings: the ones an account is registered with, and the ones
\* presented at login or chosen at a reset
SignupPasswords == {<<1>>}
Passwords == {<<1>>, <<2>>}
\* two passwords longer than bcrypt's input that differ in their last byte only
LongPassword(last) ==
    [i \in 1..(BcryptMaxBytes + 1) |-> IF i <= BcryptMaxBytes THEN 1 ELSE last]
LongPasswords == {LongPassword(1), LongPassword(2)}
\* a password of BcryptMaxBytes - 1 one-byte characters and a two-byte character
\* (lead byte 195, continuation byte `last`): the cut falls inside the character
MultiBytePassword(last) ==
    [i \in 1..(BcryptMaxBytes + 1) |->
        IF i < BcryptMaxBytes THEN 1 ELSE IF i = BcryptMaxBytes THEN 195 ELSE last]
\* the passwords accounts are registered with and the ones presented at login
\* where hashing is examined
HashSignupPasswords ==
    {<<1>>, LongPassword(1), LongPassword(2), MultiBytePassword(168)}
HashLoginPasswords ==
    {<<1>>, <<2>>, LongPassword(2), MultiBytePassword(169)}
\* NULL of a nullable timestamp column
NoTime == -1
\* a token string no generator ever returned
NoToken == 0
\* no account: the id of a row that is not there
NoUser == 0

VARIABLES
    now,                  \* datetime.utcnow(), in hours
    rotation,             \* settings.REFRESH_TOKEN_ROTATION_ENABLED
    users,                \* table users: id -> row
    refresh_tokens,       \* table refresh_tokens: token string -> row
    reset_tokens,         \* table password_reset_tokens: token string -> row
    verification_tokens,  \* table email_verification_tokens: token string -> row
    issued,               \* how many strings each token generator has returned
    pc,                   \* per process: the await it is stopped at
    loc,                  \* per process: the handler's locals and pending session changes
    resp,                 \* per process: the last response sent
    hist,                 \* history: what completed requests did (read by properties only)
    ms,                   \* datetime.utcnow(): the milliseconds past the hour `now`
    _storage,             \* rate_limiter._storage: client ip -> (count, window start)
    tasks,                \* the check_rate_limit tasks created and not yet run
    raised                \* per process: what the task of its request read and raised

db == <<users, refresh_tokens, reset_tokens, verification_tokens>>
\* the clock of the rate limiter and its state
limiter == <<ms, _storage, tasks, raised>>
vars == <<now, rotation, users, refresh_tokens, reset_tokens, verification_tokens,
          issued, pc, loc, resp, hist, ms, _storage, tasks, raised>>

\* ------------------------------------------------------------ helpers

\* datetime.utcnow(), in milliseconds
utcnow == now * 3600 * 1000 + ms

\* timegm(datetime.utcnow().utctimetuple()): utcnow() in whole seconds, as the
\* JWT library encodes and compares "exp"
timegm_utcnow == now * 3600 + ms \div 1000

\* timedelta(seconds=...) in milliseconds
timedelta(seconds) == seconds * 1000

\* int(delta.total_seconds()): the fraction of a second is cut off, towards zero
int_total_seconds(delta) ==
    IF delta >= 0 THEN delta \div 1000 ELSE 0 - ((0 - delta) \div 1000)

\* f with the row at key k replaced or added
Put(f, k, row) == [x \in DOMAIN f \cup {k} |-> IF x = k THEN row ELSE f[x]]
\* f without the rows at keys ks
Drop(f, ks) == [x \in DOMAIN f \ ks |-> f[x]]

\* tok: the token string presented; new: the string generate_token() returns to
\* this request; uid: the account row loaded; pw: the new password; old: the token
\* rows loaded by a SELECT; at: a timestamp computed from utcnow(); used: is_used
\* of the token row as loaded
NoLocals ==
    [tok |-> NoToken, new |-> NoToken, uid |-> NoUser, pw |-> <<>>, old |-> {},
     at |-> 0, used |-> FALSE, email |-> ""]
\* a response: the operation answered, the token string it was called with, the
\* HTTP status, the refresh token returned, the account the returned access
\* token names (NoUser: no access token) and the "exp" claim of that token, the
\* detail of an HTTPException, the email the request carried ("": none)
NoResponse ==
    [op |-> "none", arg |-> NoToken, status |-> 0, token |-> NoToken,
     access |-> NoUser, exp |-> 0, detail |-> "", email |-> ""]
Response(op, arg, status, token) ==
    [op |-> op, arg |-> arg, status |-> status, token |-> token,
     access |-> NoUser, exp |-> 0, detail |-> "", email |-> ""]
\* the response to a request that carried an email
ToEmail(email, response) == [response EXCEPT !.email = email]
\* create_access_token(user): the signed JWT, its "sub" claim and its "exp"
\* claim (utcnow() + ACCESS_TOKEN_EXPIRE_MINUTES, encoded as whole seconds)
create_access_token(user) ==
    [sub |-> user, exp |-> timegm_utcnow + ACCESS_TOKEN_EXPIRE_MINUTES * 60]
\* TokenResponse(access_token, refresh_token)
TokenResponse(op, arg, status, token, user) ==
    [Response(op, arg, status, token) EXCEPT
        !.access = create_access_token(user).sub,
        !.exp = create_access_token(user).exp]
\* HTTPException(status_code, detail)
HTTPException(op, arg, status, detail) ==
    [Response(op, arg, status, NoToken) EXCEPT !.detail = detail]

\* what a check_rate_limit task read and raised: the count and window start it
\* found, the status of its HTTPException (NoStatus: none raised), the Retry-After
NoStatus == 0
NoTask == [count |-> 0, window_start |-> 0, status |-> NoStatus, retry_after |-> 0]

Idle(p) == pc[p] = "idle"
\* the handler of p returns: it answers and its locals are dropped
Answer(p, response) ==
    /\ pc' = [pc EXCEPT ![p] = "idle"]
    /\ loc' = [loc EXCEPT ![p] = NoLocals]
    /\ resp' = [resp EXCEPT ![p] = response]
Return(p, op, arg, status, token) == Answer(p, Response(op, arg, status, token))
\* the handler of p goes on to its next await with locals l
Goto(p, label, l) ==
    /\ pc' = [pc EXCEPT ![p] = label]
    /\ loc' = [loc EXCEPT ![p] = l]
    /\ resp' = [resp EXCEPT ![p] = NoResponse]

\* -------------------------------------------------- credential hasher

_truncate_password(password) ==
    IF Len(password) > BcryptMaxBytes
    THEN SubSeq(password, 1, BcryptMaxBytes)
    ELSE password

\* bytes.decode('utf-8', errors='ignore'), as the bytes of the decoded text:
\* a byte below 128 is a character, a lead byte (192..223) with a continuation
\* byte (128..191) after it is a character, any other byte is dropped
decode_ignore(bytes) ==
    LET decodes(i) ==
            \/ bytes[i] < 128
            \/ /\ bytes[i] \in 192..223
               /\ i < Len(bytes)
               /\ bytes[i + 1] \in 128..191
            \/ /\ bytes[i] \in 128..191
               /\ i > 1
               /\ bytes[i - 1] \in 192..223
        kept == SelectSeq([i \in 1..Len(bytes) |-> i], decodes)
    IN [k \in 1..Len(kept) |-> bytes[kept[k]]]

\* hashing that drops the undecodable bytes before it truncates
get_password_hash_decoding_first(password) ==
    [bcrypt |-> _truncate_password(decode_ignore(password))]

get_password_hash(password) ==
    [bcrypt |-> decode_ignore(_truncate_password(password))]

\* verify_password without the truncation get_password_hash applies
verify_password_untruncated(plain_password, hashed_password) ==
    hashed_password = [bcrypt |-> plain_password]

verify_password(plain_password, hashed_password) ==
    hashed_password.bcrypt = decode_ignore(_truncate_password(plain_password))

\* -------------------------------------------------- model predicates

\* RefreshToken.is_expired / is_valid
RefreshToken_is_expired(t) == now > t.expires_at
\* RefreshToken.is_valid without the is_revoked test
RefreshToken_is_valid_unexpired(t) == ~RefreshToken_is_expired(t)

RefreshToken_is_valid(t) == ~t.is_revoked /\ ~RefreshToken_is_expired(t)

\* PasswordResetToken.is_expired / is_valid
PasswordResetToken_is_expired(t) == now > t.expires_at
\* PasswordResetToken.is_valid without the is_used test
PasswordResetToken_is_valid_unexpired(t) == ~PasswordResetToken_is_expired(t)

PasswordResetToken_is_valid(t) == ~t.is_used /\ ~PasswordResetToken_is_expired(t)

\* is_expired that never reports an expired verification token
EmailVerificationToken_is_expired_never(t) == FALSE

\* EmailVerificationToken.is_expired / is_valid
EmailVerificationToken_is_expired(t) == now > t.expires_at
EmailVerificationToken_is_valid(t) == ~t.is_used /\ ~EmailVerificationToken_is_expired(t)

\* generate_token(): a string never returned before
generate_token(kind) == issued[kind] + 1

\* get_by_email that finds nothing
get_by_email_none(email) == {}

\* UserRepository.get_by_email: the ids of the rows with that email
get_by_email(email) == {u \in DOMAIN users : users[u].email = email}

\* -------------------------------------------------- initial state

Init ==
    /\ now = 0
    /\ rotation \in BOOLEAN
    /\ users = << >>
    /\ refresh_tokens = << >>
    /\ reset_tokens = << >>
    /\ verification_tokens = << >>
    /\ issued = [refresh |-> 0, reset |-> 0, verification |-> 0]
    /\ pc = [p \in Procs |-> "idle"]
    /\ loc = [p \in Procs |-> NoLocals]
    /\ resp = [p \in Procs |-> NoResponse]
    /\ hist = [redeemed |-> {}, rotated |-> {}]
    /\ ms = 0
    /\ _storage = << >>
    /\ tasks = << >>
    /\ raised = [p \in Procs |-> NoTask]

\* the clock advances by `hours`, up to `last`
Advance(hours, last) ==
    /\ \A p \in Procs : Idle(p)
    /\ now + hours <= last
    /\ now' = now + hours
    /\ UNCHANGED <<limiter, rotation, db, issued, pc, loc, resp, hist>>

TickHour == Advance(TickHours, MaxHours)
TickDay == Advance(TickDays * 24, MaxDays * 24)

\* the handler of p stops before it returns (process killed, connection lost):
\* its session is rolled back, so nothing uncommitted reaches the tables, and
\* the client gets no answer
Crash(p) ==
    /\ ~Idle(p)
    /\ pc' = [pc EXCEPT ![p] = "idle"]
    /\ loc' = [loc EXCEPT ![p] = NoLocals]
    /\ resp' = [resp EXCEPT ![p] = NoResponse]
    /\ UNCHANGED <<now, limiter, rotation, db, issued, hist>>

\* -------------------------------------------------- TokenService

\* create_refresh_token adding a row that is revoked already
new_refresh_token_revoked(uid) ==
    [user_id |-> uid, expires_at |-> now + REFRESH_TOKEN_EXPIRE_DAYS * 24,
     is_revoked |-> TRUE]

\* the row TokenService.create_refresh_token adds for account uid
new_refresh_token(uid) ==
    [user_id |-> uid, expires_at |-> now + REFRESH_TOKEN_EXPIRE_DAYS * 24,
     is_revoked |-> FALSE]

\* TokenService.verify_refresh_token: TRUE when a row is returned
verify_refresh_token(token) ==
    /\ token \in DOMAIN refresh_tokens
    /\ RefreshToken_is_valid(refresh_tokens[token])

\* revoke_refresh_token that sets no flag
revoke_refresh_token_noop(token) == refresh_tokens

\* TokenService.revoke_refresh_token: the table after its commit
revoke_refresh_token(token) ==
    IF token \in DOMAIN refresh_tokens
    THEN [refresh_tokens EXCEPT ![token].is_revoked = TRUE]
    ELSE refresh_tokens

\* revoke_all_user_tokens selecting without the user_id filter
unrevoked_tokens_everyone(user_id) ==
    {t \in DOMAIN refresh_tokens : ~refresh_tokens[t].is_revoked}

\* the rows TokenService.revoke_all_user_tokens selects
unrevoked_tokens(user_id) ==
    {t \in DOMAIN refresh_tokens :
        refresh_tokens[t].user_id = user_id /\ ~refresh_tokens[t].is_revoked}

\* revoke_all_user_tokens whose loop marks nothing
revoke_tokens_none(tokens) == refresh_tokens

\* the table after the selected rows are marked revoked and committed
revoke_tokens(tokens) ==
    [t \in DOMAIN refresh_tokens |->
        IF t \in tokens THEN [refresh_tokens[t] EXCEPT !.is_revoked = TRUE]
        ELSE refresh_tokens[t]]

\* TokenService.revoke_all_user_tokens run in one piece
revoke_all_user_tokens(user_id) == revoke_tokens(unrevoked_tokens(user_id))

\* -------------------------------------------------- UserService

\* UserService.signup: account and first session, committed together by
\* create_refresh_token
signup(p, email, password) ==
    /\ Idle(p)
    /\ IF get_by_email(email) # {}
       THEN /\ Answer(p, ToEmail(email,
                    HTTPException("signup", NoToken, 400, "Email already registered")))
            /\ UNCHANGED <<now, limiter, rotation, db, issued, hist>>
       ELSE /\ issued.refresh < MaxRefreshTokens
            /\ LET uid == Cardinality(DOMAIN users) + 1
                   tok == generate_token("refresh")
               IN /\ users' = Put(users, uid,
                        [email |-> email,
                         hashed_password |-> get_password_hash(password),
                         role |-> "user",
                         is_active |-> TRUE,
                         is_verified |-> FALSE])
                  /\ refresh_tokens' = Put(refresh_tokens, tok, new_refresh_token(uid))
                  /\ issued' = [issued EXCEPT !.refresh = tok]
                  /\ Answer(p, ToEmail(email,
                        TokenResponse("signup", NoToken, 201, tok, uid)))
            /\ UNCHANGED <<now, limiter, rotation, reset_tokens, verification_tokens, hist>>

\* a users table without the unique index on email
IntegrityError_never(email) == FALSE

\* the unique index ix_users_email: the INSERT of a second row with the email
\* waits for the transaction holding the first and fails once that commits
IntegrityError(email) == get_by_email(email) # {}

\* UserService.signup under concurrency, up to its first await: get_by_email
\* and the duplicate check
signup_get_by_email(p, email, password) ==
    /\ Idle(p)
    /\ IF get_by_email(email) # {}
       THEN Answer(p, ToEmail(email,
                HTTPException("signup", NoToken, 400, "Email already registered")))
       ELSE Goto(p, "signup_create",
                 [NoLocals EXCEPT !.email = email, !.pw = password])
    /\ UNCHANGED <<now, limiter, rotation, db, issued, hist>>

\* UserService.signup, the rest: user_repo.create flushes the INSERT, which the
\* unique index may refuse (the exception reaches the global handler: 500, the
\* session is rolled back); create_refresh_token commits account and session
signup_create(p) ==
    /\ pc[p] = "signup_create"
    /\ IF IntegrityError(loc[p].email)
       THEN /\ Answer(p, ToEmail(loc[p].email,
                    HTTPException("signup", NoToken, 500, "Internal server error")))
            /\ UNCHANGED <<db, issued>>
       ELSE /\ issued.refresh < MaxRefreshTokens
            /\ LET uid == Cardinality(DOMAIN users) + 1
                   tok == generate_token("refresh")
               IN /\ users' = Put(users, uid,
                        [email |-> loc[p].email,
                         hashed_password |-> get_password_hash(loc[p].pw),
                         role |-> "user",
                         is_active |-> TRUE,
                         is_verified |-> FALSE])
                  /\ refresh_tokens' = Put(refresh_tokens, tok, new_refresh_token(uid))
                  /\ issued' = [issued EXCEPT !.refresh = tok]
                  /\ Answer(p, ToEmail(loc[p].email,
                        TokenResponse("signup", NoToken, 201, tok, uid)))
            /\ UNCHANGED <<reset_tokens, verification_tokens>>
    /\ UNCHANGED <<now, limiter, rotation, hist>>

\* signup that asks for the welcome notification before anything is committed:
\* the failure ends the request and the session is rolled back
signup_unsent_uncommitted(p, email, password) ==
    /\ Idle(p)
    /\ get_by_email(email) = {}
    /\ issued.refresh < MaxRefreshTokens
    /\ Answer(p, ToEmail(email,
            HTTPException("signup", NoToken, 500, "Internal server error")))
    /\ UNCHANGED <<now, limiter, rotation, db, issued, hist>>

\* UserService.signup when notification_producer.send_welcome raises: the call
\* follows create_refresh_token's commit, nothing catches the exception, and
\* the global handler answers 500
signup_unsent(p, email, password) ==
    /\ Idle(p)
    /\ get_by_email(email) = {}
    /\ issued.refresh < MaxRefreshTokens
    /\ LET uid == Cardinality(DOMAIN users) + 1
           tok == generate_token("refresh")
       IN /\ users' = Put(users, uid,
                [email |-> email,
                 hashed_password |-> get_password_hash(password),
                 role |-> "user",
                 is_active |-> TRUE,
                 is_verified |-> FALSE])
          /\ refresh_tokens' = Put(refresh_tokens, tok, new_refresh_token(uid))
          /\ issued' = [issued EXCEPT !.refresh = tok]
    /\ Answer(p, ToEmail(email,
            HTTPException("signup", NoToken, 500, "Internal server error")))
    /\ UNCHANGED <<now, limiter, rotation, reset_tokens, verification_tokens, hist>>

\* UserService.login testing is_active before the password
login_inactive_first(p, email, password) ==
    /\ Idle(p)
    /\ LET found == get_by_email(email)
       IN IF found = {}
          THEN /\ Answer(p, ToEmail(email, HTTPException("login", NoToken, 401,
                                           "Incorrect email or password")))
               /\ UNCHANGED <<now, limiter, rotation, db, issued, hist>>
          ELSE LET uid == CHOOSE u \in found : TRUE
               IN IF ~users[uid].is_active
                  THEN /\ Answer(p, ToEmail(email, HTTPException("login", NoToken, 403,
                                                   "User account is inactive")))
                       /\ UNCHANGED <<now, limiter, rotation, db, issued, hist>>
                  ELSE IF ~verify_password(password, users[uid].hashed_password)
                  THEN /\ Answer(p, ToEmail(email, HTTPException("login", NoToken, 401,
                                                   "Incorrect email or password")))
                       /\ UNCHANGED <<now, limiter, rotation, db, issued, hist>>
                  ELSE /\ issued.refresh < MaxRefreshTokens
                       /\ LET tok == generate_token("refresh")
                          IN /\ refresh_tokens' =
                                    Put(refresh_tokens, tok, new_refresh_token(uid))
                             /\ issued' = [issued EXCEPT !.refresh = tok]
                             /\ Answer(p, ToEmail(email,
                                    TokenResponse("login", NoToken, 200, tok, uid)))
                       /\ UNCHANGED <<now, limiter, rotation, users, reset_tokens,
                                      verification_tokens, hist>>

\* UserService.login
login(p, email, password) ==
    /\ Idle(p)
    /\ LET found == get_by_email(email)
       IN IF found = {}
          THEN /\ Answer(p, ToEmail(email, HTTPException("login", NoToken, 401,
                                           "Incorrect email or password")))
               /\ UNCHANGED <<now, limiter, rotation, db, issued, hist>>
          ELSE LET uid == CHOOSE u \in found : TRUE
               IN IF ~verify_password(password, users[uid].hashed_password)
                  THEN /\ Answer(p, ToEmail(email, HTTPException("login", NoToken, 401,
                                                   "Incorrect email or password")))
                       /\ UNCHANGED <<now, limiter, rotation, db, issued, hist>>
                  ELSE IF ~users[uid].is_active
                  THEN /\ Answer(p, ToEmail(email, HTTPException("login", NoToken, 403,
                                                   "User account is inactive")))
                       /\ UNCHANGED <<now, limiter, rotation, db, issued, hist>>
                  ELSE /\ issued.refresh < MaxRefreshTokens
                       /\ LET tok == generate_token("refresh")
                          IN /\ refresh_tokens' =
                                    Put(refresh_tokens, tok, new_refresh_token(uid))
                             /\ issued' = [issued EXCEPT !.refresh = tok]
                             /\ Answer(p, ToEmail(email,
                                    TokenResponse("login", NoToken, 200, tok, uid)))
                       /\ UNCHANGED <<now, limiter, rotation, users, reset_tokens,
                                      verification_tokens, hist>>

\* -------------------------------------------------- account administration

\* users.is_active is set to false from outside the service (no endpoint writes
\* the column); the row changes under whatever requests are in flight
deactivate(u) ==
    /\ u \in DOMAIN users
    /\ users[u].is_active
    /\ users' = [users EXCEPT ![u].is_active = FALSE]
    /\ UNCHANGED <<now, limiter, rotation, refresh_tokens, reset_tokens, verification_tokens,
                   issued, pc, loc, resp, hist>>

\* -------------------------------------------------- /refresh

\* refresh_access_token up to the rotation branch: verify_refresh_token, then the
\* access token; with rotation disabled the same token string is returned
refresh_access_token(p, token) ==
    /\ Idle(p)
    /\ IF ~verify_refresh_token(token)
       THEN Return(p, "refresh", token, 401, NoToken)
       ELSE IF rotation
       THEN /\ issued.refresh < MaxRefreshTokens
            /\ Goto(p, "refresh_revoke",
                    [NoLocals EXCEPT !.tok = token, !.uid = refresh_tokens[token].user_id])
       ELSE Answer(p, TokenResponse("refresh", token, 200, token,
                                    refresh_tokens[token].user_id))
    /\ UNCHANGED <<now, limiter, rotation, db, issued, hist>>

\* rotation, first half: revoke_refresh_token(token) and its commit
refresh_revoke(p) ==
    /\ pc[p] = "refresh_revoke"
    /\ refresh_tokens' = revoke_refresh_token(loc[p].tok)
    /\ Goto(p, "refresh_create", loc[p])
    /\ UNCHANGED <<now, limiter, rotation, users, reset_tokens, verification_tokens, issued, hist>>

\* rotation, second half: create_refresh_token(user) and its commit, then the answer
refresh_create(p) ==
    /\ pc[p] = "refresh_create"
    /\ LET tok == generate_token("refresh")
       IN /\ refresh_tokens' = Put(refresh_tokens, tok, new_refresh_token(loc[p].uid))
          /\ issued' = [issued EXCEPT !.refresh = tok]
          /\ hist' = [hist EXCEPT !.rotated = @ \cup {loc[p].tok}]
          /\ Answer(p, TokenResponse("refresh", loc[p].tok, 200, tok, loc[p].uid))
    /\ UNCHANGED <<now, limiter, rotation, users, reset_tokens, verification_tokens>>

\* logout: the caller is authenticated; the presented token is revoked if found
logout(p, token) ==
    /\ Idle(p)
    /\ \E u \in DOMAIN users : users[u].is_active
    /\ refresh_tokens' = revoke_refresh_token(token)
    /\ Return(p, "logout", token, 200, NoToken)
    /\ UNCHANGED <<now, limiter, rotation, users, reset_tokens, verification_tokens, issued, hist>>

\* POST /logout as account current_user: the get_current_user dependency
\* (a stored, active account), then logout with the token of the request
logout_as(p, current_user, token) ==
    /\ current_user \in DOMAIN users
    /\ users[current_user].is_active
    /\ logout(p, token)

\* logout_all_devices for the authenticated account
logout_all_devices(p, current_user) ==
    /\ Idle(p)
    /\ current_user \in DOMAIN users
    /\ users[current_user].is_active
    /\ refresh_tokens' = revoke_all_user_tokens(current_user)
    /\ Return(p, "logout_all", NoToken, 200, NoToken)
    /\ UNCHANGED <<now, limiter, rotation, users, reset_tokens, verification_tokens, issued, hist>>

\* -------------------------------------------------- access tokens

\* the JWT a TokenResponse carried
access_token(response) == [sub |-> response.access, exp |-> response.exp]

\* decode_token returning None
NoPayload == [sub |-> NoUser, exp |-> 0]

\* SecurityService.decode_token for a token the service signed: jwt.decode
\* raises once "exp" is less than the current time in whole seconds
decode_token(token) ==
    IF token.exp < timegm_utcnow THEN NoPayload ELSE token

\* get_current_user that also asks for an unrevoked session of the account
get_current_user_with_session(p, token) ==
    /\ Idle(p)
    /\ LET payload == decode_token(token)
       IN IF payload = NoPayload \/ unrevoked_tokens(payload.sub) = {}
          THEN Answer(p, HTTPException("get_current_user", NoToken, 401,
                                       "Could not validate credentials"))
          ELSE IF ~users[payload.sub].is_active
          THEN Answer(p, HTTPException("get_current_user", NoToken, 403,
                                       "User account is inactive"))
          ELSE Answer(p, ToEmail(users[payload.sub].email,
                    Response("get_current_user", NoToken, 200, NoToken)))
    /\ UNCHANGED <<now, limiter, rotation, db, issued, hist>>

\* UserService.get_current_user, as GET /me runs it: decode_token, the "sub"
\* claim, the SELECT of the account, is_active
get_current_user(p, token) ==
    /\ Idle(p)
    /\ LET payload == decode_token(token)
       IN IF payload = NoPayload
          THEN Answer(p, HTTPException("get_current_user", NoToken, 401,
                                       "Could not validate credentials"))
          ELSE IF payload.sub = NoUser
          THEN Answer(p, HTTPException("get_current_user", NoToken, 401,
                                       "Could not validate credentials"))
          ELSE IF payload.sub \notin DOMAIN users
          THEN Answer(p, HTTPException("get_current_user", NoToken, 404,
                                       "User not found"))
          ELSE IF ~users[payload.sub].is_active
          THEN Answer(p, HTTPException("get_current_user", NoToken, 403,
                                       "User account is inactive"))
          ELSE Answer(p, ToEmail(users[payload.sub].email,
                    Response("get_current_user", NoToken, 200, NoToken)))
    /\ UNCHANGED <<now, limiter, rotation, db, issued, hist>>

\* the clock advances by `minutes`, between requests
AdvanceMinutes(minutes) ==
    /\ \A p \in Procs : Idle(p)
    /\ tasks = << >>
    /\ ms + timedelta(minutes * 60) <= timedelta(MaxMinutes * 60)
    /\ ms' = ms + timedelta(minutes * 60)
    /\ UNCHANGED <<now, _storage, tasks, raised, rotation, db, issued, pc, loc,
                   resp, hist>>

\* -------------------------------------------------- ForgotPasswordService

\* create_reset_token with its filter turned round (is_used == True): the rows it
\* marks are the ones already used
unused_reset_tokens_inverted(user_id) ==
    {t \in DOMAIN reset_tokens :
        reset_tokens[t].user_id = user_id /\ reset_tokens[t].is_used}

\* the rows create_reset_token selects: the unused tokens of the account
unused_reset_tokens(user_id) ==
    {t \in DOMAIN reset_tokens :
        reset_tokens[t].user_id = user_id /\ ~reset_tokens[t].is_used}

\* create_reset_token whose commit clears the used mark of the rows it did not
\* select
commit_reset_token_reviving(old_tokens, token, user_id, expires_at) ==
    Put([t \in DOMAIN reset_tokens |->
            [reset_tokens[t] EXCEPT !.is_used = t \in old_tokens]],
        token,
        [user_id |-> user_id, expires_at |-> expires_at,
         is_used |-> FALSE, used_at |-> NoTime])

\* the table after create_reset_token's commit: the loaded rows marked used
\* (is_used only), the new row added
commit_reset_token(old_tokens, token, user_id, expires_at) ==
    Put([t \in DOMAIN reset_tokens |->
            IF t \in old_tokens THEN [reset_tokens[t] EXCEPT !.is_used = TRUE]
            ELSE reset_tokens[t]],
        token,
        [user_id |-> user_id, expires_at |-> expires_at,
         is_used |-> FALSE, used_at |-> NoTime])

\* process_forgot_password up to the user lookup; an unknown email is answered
\* like a known one
process_forgot_password(p, email) ==
    /\ Idle(p)
    /\ issued.reset < MaxResetTokens
    /\ LET found == get_by_email(email)
       IN IF found = {}
          THEN Return(p, "forgot_password", NoToken, 200, NoToken)
          ELSE Goto(p, "create_reset_token",
                    [NoLocals EXCEPT !.uid = CHOOSE u \in found : TRUE])
    /\ UNCHANGED <<now, limiter, rotation, db, issued, hist>>

\* create_reset_token committing the used marks on their own, before the new row
create_reset_token_select_committing(p) ==
    /\ pc[p] = "create_reset_token"
    /\ issued.reset < MaxResetTokens
    /\ issued' = [issued EXCEPT !.reset = generate_token("reset")]
    /\ reset_tokens' =
            [t \in DOMAIN reset_tokens |->
                IF t \in unused_reset_tokens(loc[p].uid)
                THEN [reset_tokens[t] EXCEPT !.is_used = TRUE]
                ELSE reset_tokens[t]]
    /\ Goto(p, "create_reset_token_commit",
            [loc[p] EXCEPT !.old = {},
                           !.new = generate_token("reset"),
                           !.at = now + expiry_hours])
    /\ UNCHANGED <<now, limiter, rotation, users, refresh_tokens, verification_tokens, hist>>

\* create_reset_token: the SELECT of the unused tokens, then the new token object
create_reset_token_select(p) ==
    /\ pc[p] = "create_reset_token"
    /\ issued.reset < MaxResetTokens
    /\ issued' = [issued EXCEPT !.reset = generate_token("reset")]
    /\ Goto(p, "create_reset_token_commit",
            [loc[p] EXCEPT !.old = unused_reset_tokens(loc[p].uid),
                           !.new = generate_token("reset"),
                           !.at = now + expiry_hours])
    /\ UNCHANGED <<now, limiter, rotation, db, hist>>

\* create_reset_token: the commit; an UPDATE of a row that is gone fails the commit
create_reset_token_commit(p) ==
    /\ pc[p] = "create_reset_token_commit"
    /\ IF loc[p].old \subseteq DOMAIN reset_tokens
       THEN /\ reset_tokens' =
                 commit_reset_token(loc[p].old, loc[p].new, loc[p].uid, loc[p].at)
            /\ Goto(p, "create_pending_email", loc[p])
       ELSE /\ Return(p, "forgot_password", NoToken, 500, NoToken)
            /\ UNCHANGED reset_tokens
    /\ UNCHANGED <<now, limiter, rotation, users, refresh_tokens, verification_tokens, issued, hist>>

\* db.refresh(token), the reset link, create_pending_email (a log line), the answer
create_pending_email(p) ==
    /\ pc[p] = "create_pending_email"
    /\ Return(p, "forgot_password", NoToken, 200, NoToken)
    /\ UNCHANGED <<now, limiter, rotation, db, issued, hist>>

\* -------------------------------------------------- ResetPasswordService

\* a token string no password_reset_tokens row holds
UnknownToken == MaxResetTokens + 1

\* ResetPasswordService.verify_reset_token: TRUE when a row is returned
verify_reset_token(token) ==
    /\ token \in DOMAIN reset_tokens
    /\ PasswordResetToken_is_valid(reset_tokens[token])

\* reset_password: verify_reset_token
reset_password(p, token, new_password) ==
    /\ Idle(p)
    /\ IF ~verify_reset_token(token)
       THEN Answer(p, HTTPException("reset_password", token, 400,
                "Invalid or expired password reset token"))
       ELSE Goto(p, "reset_password_user",
                 [NoLocals EXCEPT !.tok = token, !.pw = new_password,
                                  !.uid = reset_tokens[token].user_id])
    /\ UNCHANGED <<now, limiter, rotation, db, issued, hist>>

\* reset_password that commits the used mark before it tests is_active
reset_password_user_marking(p) ==
    /\ pc[p] = "reset_password_user"
    /\ IF loc[p].uid \notin DOMAIN users
       THEN /\ Answer(p, HTTPException("reset_password", loc[p].tok, 404,
                "User not found"))
            /\ UNCHANGED reset_tokens
       ELSE IF ~users[loc[p].uid].is_active
       THEN /\ Answer(p, HTTPException("reset_password", loc[p].tok, 403,
                "User account is inactive"))
            /\ reset_tokens' = [reset_tokens EXCEPT
                    ![loc[p].tok].is_used = TRUE, ![loc[p].tok].used_at = now]
       ELSE /\ Goto(p, "revoke_all_user_tokens", [loc[p] EXCEPT !.at = now])
            /\ UNCHANGED reset_tokens
    /\ UNCHANGED <<now, limiter, rotation, users, refresh_tokens, verification_tokens,
                   issued, hist>>

\* reset_password: the SELECT of the account, the checks, and the changes made to
\* the loaded rows (new hash, is_used, used_at = utcnow())
reset_password_user(p) ==
    /\ pc[p] = "reset_password_user"
    /\ IF loc[p].uid \notin DOMAIN users
       THEN Answer(p, HTTPException("reset_password", loc[p].tok, 404,
                "User not found"))
       ELSE IF ~users[loc[p].uid].is_active
       THEN Answer(p, HTTPException("reset_password", loc[p].tok, 403,
                "User account is inactive"))
       ELSE Goto(p, "revoke_all_user_tokens", [loc[p] EXCEPT !.at = now])
    /\ UNCHANGED <<now, limiter, rotation, db, issued, hist>>

\* revoke_all_user_tokens called by reset_password: its SELECT
reset_password_revoke_select(p) ==
    /\ pc[p] = "revoke_all_user_tokens"
    /\ Goto(p, "reset_password_commit",
            [loc[p] EXCEPT !.old = unrevoked_tokens(loc[p].uid)])
    /\ UNCHANGED <<now, limiter, rotation, db, issued, hist>>

\* the commit at the end of revoke_all_user_tokens: it flushes everything the
\* session holds, so the new hash, the used mark and the revocations are
\* written by this one commit
reset_password_commit(p) ==
    /\ pc[p] = "reset_password_commit"
    /\ IF /\ loc[p].old \subseteq DOMAIN refresh_tokens
          /\ loc[p].tok \in DOMAIN reset_tokens
          /\ loc[p].uid \in DOMAIN users
       THEN /\ users' = [users EXCEPT
                 ![loc[p].uid].hashed_password = get_password_hash(loc[p].pw)]
            /\ reset_tokens' = [reset_tokens EXCEPT
                 ![loc[p].tok].is_used = TRUE, ![loc[p].tok].used_at = loc[p].at]
            /\ refresh_tokens' = revoke_tokens(loc[p].old)
            /\ hist' = [hist EXCEPT !.redeemed = @ \cup {loc[p].tok}]
            /\ Goto(p, "reset_password_done", loc[p])
       ELSE /\ Return(p, "reset_password", loc[p].tok, 500, NoToken)
            /\ UNCHANGED <<users, reset_tokens, refresh_tokens, hist>>
    /\ UNCHANGED <<now, limiter, rotation, verification_tokens, issued>>

\* reset_password's own commit (nothing left to write) and the answer
reset_password_done(p) ==
    /\ pc[p] = "reset_password_done"
    /\ Return(p, "reset_password", loc[p].tok, 200, NoToken)
    /\ UNCHANGED <<now, limiter, rotation, db, issued, hist>>

\* -------------------------------------------------- EmailVerificationService

\* the rows create_verification_token selects: the unused tokens of the account
unused_verification_tokens(user_id) ==
    {t \in DOMAIN verification_tokens :
        verification_tokens[t].user_id = user_id /\ ~verification_tokens[t].is_used}

\* the table after create_verification_token's commit
commit_verification_token(old_tokens, token, user_id, expires_at) ==
    Put([t \in DOMAIN verification_tokens |->
            IF t \in old_tokens THEN [verification_tokens[t] EXCEPT !.is_used = TRUE]
            ELSE verification_tokens[t]],
        token,
        [user_id |-> user_id, expires_at |-> expires_at,
         is_used |-> FALSE, used_at |-> NoTime])

\* resend_verification: the authenticated account is loaded (get_current_user);
\* an account that is already verified is refused
resend_verification(p, current_user) ==
    /\ Idle(p)
    /\ issued.verification < MaxVerificationTokens
    /\ current_user \in DOMAIN users
    /\ users[current_user].is_active
    /\ IF users[current_user].is_verified
       THEN Return(p, "resend_verification", NoToken, 400, NoToken)
       ELSE Goto(p, "create_verification_token", [NoLocals EXCEPT !.uid = current_user])
    /\ UNCHANGED <<now, limiter, rotation, db, issued, hist>>

\* create_verification_token: the SELECT of the unused tokens, then the new token object
create_verification_token_select(p) ==
    /\ pc[p] = "create_verification_token"
    /\ issued.verification < MaxVerificationTokens
    /\ issued' = [issued EXCEPT !.verification = generate_token("verification")]
    /\ Goto(p, "create_verification_token_commit",
            [loc[p] EXCEPT !.old = unused_verification_tokens(loc[p].uid),
                           !.new = generate_token("verification"),
                           !.at = now + expiry_hours])
    /\ UNCHANGED <<now, limiter, rotation, db, hist>>

\* create_verification_token: the commit
create_verification_token_commit(p) ==
    /\ pc[p] = "create_verification_token_commit"
    /\ IF loc[p].old \subseteq DOMAIN verification_tokens
       THEN /\ verification_tokens' =
                 commit_verification_token(loc[p].old, loc[p].new, loc[p].uid, loc[p].at)
            /\ Goto(p, "send_email_verification", loc[p])
       ELSE /\ Return(p, "resend_verification", NoToken, 500, NoToken)
            /\ UNCHANGED verification_tokens
    /\ UNCHANGED <<now, limiter, rotation, users, refresh_tokens, reset_tokens, issued, hist>>

\* db.refresh(token), the link, the notification, the answer
send_email_verification(p) ==
    /\ pc[p] = "send_email_verification"
    /\ Return(p, "resend_verification", NoToken, 200, NoToken)
    /\ UNCHANGED <<now, limiter, rotation, db, issued, hist>>

\* send_verification_email when notification_producer.send_email_verification
\* raises: create_verification_token has committed, nothing catches the
\* exception, and the global handler answers 500
send_email_verification_unsent(p) ==
    /\ pc[p] = "send_email_verification"
    /\ Answer(p, HTTPException("resend_verification", NoToken, 500,
                               "Internal server error"))
    /\ UNCHANGED <<now, limiter, rotation, db, issued, hist>>

\* verify_token that refuses a used token (is_valid in place of is_expired)
verify_token_unused(token) ==
    /\ token \in DOMAIN verification_tokens
    /\ EmailVerificationToken_is_valid(verification_tokens[token])

\* EmailVerificationService.verify_token: TRUE when a row is returned; a used
\* token is returned too
verify_token(token) ==
    /\ token \in DOMAIN verification_tokens
    /\ ~EmailVerificationToken_is_expired(verification_tokens[token])

\* verify_email: verify_token
verify_email(p, token) ==
    /\ Idle(p)
    /\ IF ~verify_token(token)
       THEN Answer(p, HTTPException("verify_email", token, 400,
                "Invalid or expired verification token"))
       ELSE Goto(p, "verify_email_user",
                 [NoLocals EXCEPT !.tok = token,
                                  !.uid = verification_tokens[token].user_id,
                                  !.used = verification_tokens[token].is_used])
    /\ UNCHANGED <<now, limiter, rotation, db, issued, hist>>

\* verify_email without the check of a used token on an unverified account
verify_email_user_unchecked(p) ==
    /\ pc[p] = "verify_email_user"
    /\ IF loc[p].uid \notin DOMAIN users
       THEN Answer(p, HTTPException("verify_email", loc[p].tok, 404,
                "User not found"))
       ELSE IF users[loc[p].uid].is_verified
       THEN IF ~loc[p].used
            THEN Goto(p, "verify_email_mark_used", [loc[p] EXCEPT !.at = now])
            ELSE Return(p, "verify_email", loc[p].tok, 200, NoToken)
       ELSE Goto(p, "verify_email_commit", [loc[p] EXCEPT !.at = now])
    /\ UNCHANGED <<now, limiter, rotation, db, issued, hist>>

\* verify_email with a message of its own for a used token
verify_email_user_telling(p) ==
    /\ pc[p] = "verify_email_user"
    /\ IF loc[p].uid \notin DOMAIN users
       THEN Answer(p, HTTPException("verify_email", loc[p].tok, 404,
                "User not found"))
       ELSE IF users[loc[p].uid].is_verified
       THEN IF ~loc[p].used
            THEN Goto(p, "verify_email_mark_used", [loc[p] EXCEPT !.at = now])
            ELSE Return(p, "verify_email", loc[p].tok, 200, NoToken)
       ELSE IF loc[p].used
       THEN Answer(p, HTTPException("verify_email", loc[p].tok, 400,
                "Verification token already used"))
       ELSE Goto(p, "verify_email_commit", [loc[p] EXCEPT !.at = now])
    /\ UNCHANGED <<now, limiter, rotation, db, issued, hist>>

\* verify_email: the SELECT of the account and the three cases: already verified
\* (success, the token marked used if it was not), used token of an unverified
\* account (refused), first verification
verify_email_user(p) ==
    /\ pc[p] = "verify_email_user"
    /\ IF loc[p].uid \notin DOMAIN users
       THEN Answer(p, HTTPException("verify_email", loc[p].tok, 404,
                "User not found"))
       ELSE IF users[loc[p].uid].is_verified
       THEN IF ~loc[p].used
            THEN Goto(p, "verify_email_mark_used", [loc[p] EXCEPT !.at = now])
            ELSE Return(p, "verify_email", loc[p].tok, 200, NoToken)
       ELSE IF loc[p].used
       THEN Answer(p, HTTPException("verify_email", loc[p].tok, 400,
                "Invalid or expired verification token"))
       ELSE Goto(p, "verify_email_commit", [loc[p] EXCEPT !.at = now])
    /\ UNCHANGED <<now, limiter, rotation, db, issued, hist>>

\* already verified, token not yet used: the commit of the used mark
verify_email_mark_used(p) ==
    /\ pc[p] = "verify_email_mark_used"
    /\ IF loc[p].tok \in DOMAIN verification_tokens
       THEN /\ verification_tokens' = [verification_tokens EXCEPT
                 ![loc[p].tok].is_used = TRUE, ![loc[p].tok].used_at = loc[p].at]
            /\ Return(p, "verify_email", loc[p].tok, 200, NoToken)
       ELSE /\ Return(p, "verify_email", loc[p].tok, 500, NoToken)
            /\ UNCHANGED verification_tokens
    /\ UNCHANGED <<now, limiter, rotation, users, refresh_tokens, reset_tokens, issued, hist>>

\* first verification whose commit writes the used mark without is_verified
verify_email_commit_token_only(p) ==
    /\ pc[p] = "verify_email_commit"
    /\ IF loc[p].tok \in DOMAIN verification_tokens /\ loc[p].uid \in DOMAIN users
       THEN /\ verification_tokens' = [verification_tokens EXCEPT
                 ![loc[p].tok].is_used = TRUE, ![loc[p].tok].used_at = loc[p].at]
            /\ Goto(p, "verify_email_done", loc[p])
       ELSE /\ Return(p, "verify_email", loc[p].tok, 500, NoToken)
            /\ UNCHANGED verification_tokens
    /\ UNCHANGED <<now, limiter, rotation, users, refresh_tokens, reset_tokens, issued, hist>>

\* first verification: is_verified and the used mark written by one commit
verify_email_commit(p) ==
    /\ pc[p] = "verify_email_commit"
    /\ IF loc[p].tok \in DOMAIN verification_tokens /\ loc[p].uid \in DOMAIN users
       THEN /\ users' = [users EXCEPT ![loc[p].uid].is_verified = TRUE]
            /\ verification_tokens' = [verification_tokens EXCEPT
                 ![loc[p].tok].is_used = TRUE, ![loc[p].tok].used_at = loc[p].at]
            /\ Goto(p, "verify_email_done", loc[p])
       ELSE /\ Return(p, "verify_email", loc[p].tok, 500, NoToken)
            /\ UNCHANGED <<users, verification_tokens>>
    /\ UNCHANGED <<now, limiter, rotation, refresh_tokens, reset_tokens, issued, hist>>

\* db.refresh(user) and the answer
verify_email_done(p) ==
    /\ pc[p] = "verify_email_done"
    /\ Return(p, "verify_email", loc[p].tok, 200, NoToken)
    /\ UNCHANGED <<now, limiter, rotation, db, issued, hist>>

\* -------------------------------------------------- expiry sweeps

\* TokenService.cleanup_expired_tokens
cleanup_expired_refresh_tokens ==
    /\ LET expired == {t \in DOMAIN refresh_tokens : refresh_tokens[t].expires_at < now}
       IN /\ expired # {}
          /\ refresh_tokens' = Drop(refresh_tokens, expired)
    /\ UNCHANGED <<now, limiter, rotation, users, reset_tokens, verification_tokens,
                   issued, pc, loc, resp, hist>>

\* the sweep of the reset tokens that also deletes a row at the instant of its
\* expires_at
cleanup_expired_reset_tokens_at_expiry ==
    /\ LET expired == {t \in DOMAIN reset_tokens : reset_tokens[t].expires_at <= now}
       IN /\ expired # {}
          /\ reset_tokens' = Drop(reset_tokens, expired)
    /\ UNCHANGED <<now, limiter, rotation, users, refresh_tokens, verification_tokens,
                   issued, pc, loc, resp, hist>>

\* ResetPasswordService.cleanup_expired_tokens
cleanup_expired_reset_tokens ==
    /\ LET expired == {t \in DOMAIN reset_tokens : reset_tokens[t].expires_at < now}
       IN /\ expired # {}
          /\ reset_tokens' = Drop(reset_tokens, expired)
    /\ UNCHANGED <<now, limiter, rotation, users, refresh_tokens, verification_tokens,
                   issued, pc, loc, resp, hist>>

\* EmailVerificationService.cleanup_expired_tokens
cleanup_expired_verification_tokens ==
    /\ LET expired ==
              {t \in DOMAIN verification_tokens : verification_tokens[t].expires_at < now}
       IN /\ expired # {}
          /\ verification_tokens' = Drop(verification_tokens, expired)
    /\ UNCHANGED <<now, limiter, rotation, users, refresh_tokens, reset_tokens,
                   issued, pc, loc, resp, hist>>

\* -------------------------------------------------- specifications

\* what a client can present: a string some generator returned, or one none did
Presented(kind) == 0..issued[kind]

\* the action-token requests.  The two purposes share no row and no handler
\* reads both tables, so a run issues tokens of one purpose.
ActionTokenRequest(p) ==
    \/ \E email \in Emails, password \in SignupPasswords : signup(p, email, password)
    \/ /\ issued.verification = 0
       /\ \E email \in Emails : process_forgot_password(p, email)
    \/ \E token \in Presented("reset"), password \in Passwords :
            reset_password(p, token, password)
    \/ /\ issued.reset = 0
       /\ \E u \in DOMAIN users : resend_verification(p, u)
    \/ \E token \in Presented("verification") : verify_email(p, token)

\* the steps of an action-token request that follow its first await; with one
\* request at a time no verified account has an unused token, so
\* verify_email_mark_used has nothing to do here
ActionTokenStep(p) ==
    \/ create_reset_token_select(p)
    \/ create_reset_token_commit(p)
    \/ create_pending_email(p)
    \/ reset_password_user(p)
    \/ reset_password_revoke_select(p)
    \/ reset_password_commit(p)
    \/ reset_password_done(p)
    \/ create_verification_token_select(p)
    \/ create_verification_token_commit(p)
    \/ send_email_verification(p)
    \/ verify_email_user(p)
    \/ verify_email_commit(p)
    \/ verify_email_done(p)

\* the sweeps of the action-token tables, run between requests
ActionTokenSweep ==
    /\ \A p \in Procs : Idle(p)
    /\ \/ cleanup_expired_reset_tokens
       \/ cleanup_expired_verification_tokens

\* issue, redeem and sweep of action tokens, one request at a time, a request
\* possibly cut short
Next ==
    \/ ActionTokenRequest(1)
    \/ ActionTokenStep(1)
    \/ Crash(1)
    \/ ActionTokenSweep
    \/ TickHour

Spec == Init /\ [][Next]_vars

\* ---------------------------------------------------------------------------
\* the rate limiter
\* ---------------------------------------------------------------------------

\* the requests: the X-Forwarded-For chain (<< >>: no header) and the peer
\* address of the connection
Requests ==
    {[forwarded |-> << >>, host |-> "10.0.0.1"],
     [forwarded |-> <<"10.0.0.2", "10.0.0.1">>, host |-> "10.0.0.1"]}

\* RateLimiter._get_client_ip
_get_client_ip(request) ==
    IF request.forwarded # << >> THEN Head(request.forwarded) ELSE request.host

\* the arguments the dependencies give check_rate_limit
rate_limit_forgot_password == [max_requests |-> 3, window_seconds |-> 900]
rate_limit_reset_password == [max_requests |-> 5, window_seconds |-> 900]
rate_limit_resend_verification == [max_requests |-> 3, window_seconds |-> 900]

\* len(self._storage) above which check_rate_limit sweeps
CleanupThreshold == 1000

\* _cleanup_expired_entries that keeps an entry until its window has been
\* closed for two windows
_cleanup_expired_entries_closed(window_seconds) ==
    LET expired_keys ==
            {ip \in DOMAIN _storage :
                utcnow - _storage[ip].window_start > timedelta(window_seconds * 3)}
    IN [ip \in DOMAIN _storage \ expired_keys |-> _storage[ip]]

\* RateLimiter._cleanup_expired_entries: the map without the entries older
\* than two windows
_cleanup_expired_entries(window_seconds) ==
    LET expired_keys ==
            {ip \in DOMAIN _storage :
                utcnow - _storage[ip].window_start > timedelta(window_seconds * 2)}
    IN [ip \in DOMAIN _storage \ expired_keys |-> _storage[ip]]

\* the window test that also holds at the end of the window
same_window_inclusive(window_start, window_seconds) ==
    utcnow - window_start <= timedelta(window_seconds)

\* check_rate_limit: "still in the same window"
same_window(window_start, window_seconds) ==
    utcnow - window_start < timedelta(window_seconds)

\* a Retry-After computed from the time since the window started
retry_after_elapsed(window_start, window_seconds) ==
    int_total_seconds(utcnow - window_start)

\* check_rate_limit: retry_after
retry_after(window_start, window_seconds) ==
    int_total_seconds(window_start + timedelta(window_seconds) - utcnow)

\* check_rate_limit that rejects only above max_requests
check_rate_limit_above(request, max_requests, window_seconds) ==
    LET client_ip == _get_client_ip(request)
        entry == IF client_ip \in DOMAIN _storage
                 THEN _storage[client_ip]
                 ELSE [count |-> 0, window_start |-> utcnow]
    IN IF same_window(entry.window_start, window_seconds)
       THEN IF entry.count > max_requests
            THEN [storage |-> Put(_storage, client_ip, entry),
                  count |-> entry.count, window_start |-> entry.window_start,
                  status |-> 429,
                  retry_after |-> retry_after(entry.window_start, window_seconds)]
            ELSE [storage |-> Put(_storage, client_ip,
                                  [count |-> entry.count + 1,
                                   window_start |-> entry.window_start]),
                  count |-> entry.count, window_start |-> entry.window_start,
                  status |-> NoStatus, retry_after |-> 0]
       ELSE [storage |-> Put(_storage, client_ip,
                             [count |-> 1, window_start |-> utcnow]),
             count |-> entry.count, window_start |-> entry.window_start,
             status |-> NoStatus, retry_after |-> 0]

\* check_rate_limit whose rejection restarts the window
check_rate_limit_extending(request, max_requests, window_seconds) ==
    LET client_ip == _get_client_ip(request)
        entry == IF client_ip \in DOMAIN _storage
                 THEN _storage[client_ip]
                 ELSE [count |-> 0, window_start |-> utcnow]
        accepted == IF same_window(entry.window_start, window_seconds)
                    THEN [count |-> entry.count + 1,
                          window_start |-> entry.window_start]
                    ELSE [count |-> 1, window_start |-> utcnow]
    IN IF same_window(entry.window_start, window_seconds)
          /\ entry.count >= max_requests
       THEN [storage |-> Put(_storage, client_ip,
                             [count |-> entry.count, window_start |-> utcnow]),
             count |-> entry.count, window_start |-> entry.window_start,
             status |-> 429,
             retry_after |-> retry_after(entry.window_start, window_seconds)]
       ELSE [storage |-> Put(_storage, client_ip, accepted),
             count |-> entry.count, window_start |-> entry.window_start,
             status |-> NoStatus, retry_after |-> 0]

\* RateLimiter.check_rate_limit, run at utcnow: the map it leaves, the count and
\* window start it read (the defaultdict stores (0, utcnow()) for a key it does
\* not hold), the status of the HTTPException it raised and its Retry-After
check_rate_limit(request, max_requests, window_seconds) ==
    LET client_ip == _get_client_ip(request)
        swept == IF Cardinality(DOMAIN _storage) > CleanupThreshold
                 THEN _cleanup_expired_entries(window_seconds)
                 ELSE _storage
        entry == IF client_ip \in DOMAIN swept
                 THEN swept[client_ip]
                 ELSE [count |-> 0, window_start |-> utcnow]
        read == Put(swept, client_ip, entry)
        count == entry.count
        window_start == entry.window_start
    IN IF same_window(window_start, window_seconds)
       THEN IF count >= max_requests
            THEN [storage |-> read, count |-> count, window_start |-> window_start,
                  status |-> 429,
                  retry_after |-> retry_after(window_start, window_seconds)]
            ELSE [storage |-> Put(read, client_ip,
                                  [count |-> count + 1,
                                   window_start |-> window_start]),
                  count |-> count, window_start |-> window_start,
                  status |-> NoStatus, retry_after |-> 0]
       ELSE [storage |-> Put(read, client_ip,
                             [count |-> 1, window_start |-> utcnow]),
             count |-> count, window_start |-> window_start,
             status |-> NoStatus, retry_after |-> 0]

\* a rate_limit_* dependency: asyncio.create_task(check_rate_limit(...)) is
\* returned, not awaited; the request goes on to its handler
create_task(p, request, dependency, policy) ==
    /\ tasks' = Append(tasks, [p |-> p, request |-> request,
                               dependency |-> dependency,
                               max_requests |-> policy.max_requests,
                               window_seconds |-> policy.window_seconds])
    /\ raised' = [raised EXCEPT ![p] = NoTask]

\* the event loop runs the oldest task: what check_rate_limit raises stays in
\* the task, which nothing awaits
check_rate_limit_task ==
    /\ tasks # << >>
    /\ LET task == Head(tasks)
           result == check_rate_limit(task.request, task.max_requests,
                                      task.window_seconds)
       IN /\ _storage' = result.storage
          /\ raised' = [raised EXCEPT ![task.p] =
                            [count |-> result.count,
                             window_start |-> result.window_start,
                             status |-> result.status,
                             retry_after |-> result.retry_after]]
    /\ tasks' = Tail(tasks)
    /\ UNCHANGED <<now, ms, rotation, db, issued, pc, loc, resp, hist>>

\* the keywords POST /forgot-password calls process_forgot_password with, and
\* the parameters process_forgot_password has
forgot_password_keywords == {"email", "language", "ip_address", "expiry_hours"}
process_forgot_password_parameters == {"email", "ip_address", "expiry_hours"}

\* POST /forgot-password: the dependency, then the call of
\* process_forgot_password; a keyword that is no parameter is a TypeError,
\* which the global exception handler answers with 500
forgot_password(p, request, email) ==
    /\ Idle(p)
    /\ tasks = << >>
    /\ create_task(p, request, "rate_limit_forgot_password",
                   rate_limit_forgot_password)
    /\ IF forgot_password_keywords \subseteq process_forgot_password_parameters
       THEN LET found == get_by_email(email)
            IN IF found = {}
               THEN Answer(p, ToEmail(email,
                        Response("POST /forgot-password", NoToken, 200, NoToken)))
               ELSE Goto(p, "create_reset_token",
                         [NoLocals EXCEPT !.uid = CHOOSE u \in found : TRUE])
       ELSE Answer(p, ToEmail(email,
                HTTPException("POST /forgot-password", NoToken, 500,
                              "Internal server error")))
    /\ UNCHANGED <<now, ms, _storage, rotation, db, issued, hist>>

\* POST /reset-password: the dependency, then reset_password up to its first
\* query
reset_password_endpoint(p, request, token, new_password) ==
    /\ Idle(p)
    /\ tasks = << >>
    /\ create_task(p, request, "rate_limit_reset_password",
                   rate_limit_reset_password)
    /\ IF ~verify_reset_token(token)
       THEN Answer(p, HTTPException("POST /reset-password", token, 400,
                                    "Invalid or expired password reset token"))
       ELSE Goto(p, "reset_password_user",
                 [NoLocals EXCEPT !.tok = token, !.pw = new_password,
                                  !.uid = reset_tokens[token].user_id])
    /\ UNCHANGED <<now, ms, _storage, rotation, db, issued, hist>>

\* the clock of the limiter advances by `millis`, between requests
AdvanceMillis(millis) ==
    /\ \A p \in Procs : Idle(p)
    /\ tasks = << >>
    /\ ms + millis <= MaxMillis
    /\ ms' = ms + millis
    /\ UNCHANGED <<now, _storage, tasks, raised, rotation, db, issued, pc, loc,
                   resp, hist>>

\* half a window, and half a second less
TicksMillis == {timedelta(450), timedelta(450) - 500}

\* the rate-limited requests
LimitedRequest(p) ==
    \/ \E request \in Requests, email \in Emails :
            forgot_password(p, request, email)
    \/ \E request \in Requests, password \in SignupPasswords :
            reset_password_endpoint(p, request, UnknownToken, password)

\* the rate-limited endpoints called by one client after another, the limiter
\* tasks, accounts signed up meanwhile
NextLimiter ==
    \/ LimitedRequest(1)
    \/ check_rate_limit_task
    \/ \E email \in Emails, password \in SignupPasswords :
            tasks = << >> /\ signup(1, email, password)
    \/ \E millis \in TicksMillis : AdvanceMillis(millis)

SpecLimiter == Init /\ [][NextLimiter]_vars

\* the rate_limit_forgot_password dependency called for a request of p: the
\* task is created and left to the event loop, which runs the tasks in the
\* order of their creation
depends_rate_limit_forgot_password(p, request) ==
    /\ Len(tasks) < MaxTasks
    /\ create_task(p, request, "rate_limit_forgot_password",
                   rate_limit_forgot_password)
    /\ UNCHANGED <<now, ms, _storage, rotation, db, issued, pc, loc, resp, hist>>

\* concurrent requests to one rate-limited endpoint: several limiter tasks
\* wait at a time
NextThrottle ==
    \/ \E p \in Procs, request \in Requests :
            depends_rate_limit_forgot_password(p, request)
    \/ check_rate_limit_task
    \/ \E millis \in TicksMillis : AdvanceMillis(millis)

SpecThrottle == Init /\ [][NextThrottle]_vars

\* the address of the i-th of the other clients
crowd_ip(i) == "198.51.100." \o ToString(i)

\* the limiter an hour after start, when CleanupThreshold - 1 other clients
\* have called a rate-limited endpoint once each: a quarter of them a
\* millisecond ago, a quarter one, two and three windows ago
crowd ==
    LET window == timedelta(rate_limit_forgot_password.window_seconds)
        age(i) == IF i % 4 = 0 THEN 1 ELSE (i % 4) * window
    IN [ip \in {crowd_ip(i) : i \in 1..(CleanupThreshold - 1)} |->
            [count |-> 1,
             window_start |->
                utcnow - age(CHOOSE i \in 1..(CleanupThreshold - 1) : crowd_ip(i) = ip)]]

InitPrune ==
    /\ now = 1
    /\ rotation = TRUE
    /\ users = << >>
    /\ refresh_tokens = << >>
    /\ reset_tokens = << >>
    /\ verification_tokens = << >>
    /\ issued = [refresh |-> 0, reset |-> 0, verification |-> 0]
    /\ pc = [p \in Procs |-> "idle"]
    /\ loc = [p \in Procs |-> NoLocals]
    /\ resp = [p \in Procs |-> NoResponse]
    /\ hist = [redeemed |-> {}, rotated |-> {}]
    /\ ms = 0
    /\ _storage = crowd
    /\ tasks = << >>
    /\ raised = [p \in Procs |-> NoTask]

\* calls to one rate-limited endpoint while the map is at the threshold: the
\* two clients of Requests bring it to CleanupThreshold and above
NextPrune ==
    \/ \E request \in Requests : depends_rate_limit_forgot_password(1, request)
    \/ check_rate_limit_task
    \/ \E millis \in TicksMillis : AdvanceMillis(millis)

SpecPrune == InitPrune /\ [][NextPrune]_vars

\* registrations, two at a time: the steps of the two requests interleave at
\* their awaits, a request possibly cut short
NextRegister ==
    \/ \E p \in Procs, email \in Emails, password \in SignupPasswords :
            signup_get_by_email(p, email, password)
    \/ \E p \in Procs : signup_create(p)
    \/ \E p \in Procs : Crash(p)

SpecRegister == Init /\ [][NextRegister]_vars

\* signups (process 2) and resent verifications (process 1), one request at a
\* time, with notifications that are queued or fail
NextNotify ==
    \/ \E email \in Emails, password \in SignupPasswords :
            Idle(1) /\ signup(2, email, password)
    \/ \E email \in Emails, password \in SignupPasswords :
            Idle(1) /\ signup_unsent(2, email, password)
    \/ \E u \in DOMAIN users : resend_verification(1, u)
    \/ create_verification_token_select(1)
    \/ create_verification_token_commit(1)
    \/ send_email_verification(1)
    \/ send_email_verification_unsent(1)
    \/ \E token \in Presented("verification") : verify_email(1, token)
    \/ verify_email_user(1)
    \/ verify_email_commit(1)
    \/ verify_email_done(1)

SpecNotify == Init /\ [][NextNotify]_vars

\* access tokens handed to one client (process 2) at signup, and the
\* requests of process 1 that revoke sessions, reset the password and present
\* the client's access token to GET /me, over three quarters of an hour
NextAccess ==
    \/ \E email \in Emails, password \in SignupPasswords :
            Idle(1) /\ signup(2, email, password)
    \/ \E token \in Presented("refresh") : logout(1, token)
    \/ \E u \in DOMAIN users : logout_all_devices(1, u)
    \/ \E email \in Emails : process_forgot_password(1, email)
    \/ create_reset_token_select(1)
    \/ create_reset_token_commit(1)
    \/ create_pending_email(1)
    \/ \E token \in Presented("reset"), password \in SignupPasswords :
            reset_password(1, token, password)
    \/ reset_password_user(1)
    \/ reset_password_revoke_select(1)
    \/ reset_password_commit(1)
    \/ reset_password_done(1)
    \/ \E u \in DOMAIN users : deactivate(u)
    \/ resp[2].access # NoUser /\ get_current_user(1, access_token(resp[2]))
    \/ AdvanceMinutes(TickMinutes)

SpecAccess == Init /\ [][NextAccess]_vars

\* accounts registered and logged into with short and over-long passwords
NextHash ==
    \/ \E email \in Emails, password \in HashSignupPasswords :
            signup(1, email, password)
    \/ \E email \in Emails, password \in HashLoginPasswords :
            login(1, email, password)

SpecHash == Init /\ [][NextHash]_vars

\* a password reset by one client while another refreshes its session: the
\* steps of the two requests interleave at their awaits
NextResetRefresh ==
    \/ /\ Idle(2)
       /\ \E email \in Emails, password \in SignupPasswords : signup(1, email, password)
    \/ \E email \in Emails : process_forgot_password(1, email)
    \/ create_reset_token_select(1)
    \/ create_reset_token_commit(1)
    \/ create_pending_email(1)
    \/ \E token \in Presented("reset"), password \in Passwords :
            reset_password(1, token, password)
    \/ reset_password_user(1)
    \/ reset_password_revoke_select(1)
    \/ reset_password_commit(1)
    \/ reset_password_done(1)
    \/ \E token \in Presented("refresh") : refresh_access_token(2, token)
    \/ refresh_revoke(2)
    \/ refresh_create(2)

SpecResetRefresh == Init /\ [][NextResetRefresh]_vars

\* two clients refreshing at the same time: the steps of their /refresh requests
\* interleave at the awaits
NextRefresh ==
    \/ /\ Idle(2)
       /\ \E email \in Emails, password \in SignupPasswords : signup(1, email, password)
    \/ \E p \in Procs, token \in Presented("refresh") : refresh_access_token(p, token)
    \/ \E p \in Procs : refresh_revoke(p)
    \/ \E p \in Procs : refresh_create(p)

SpecRefresh == Init /\ [][NextRefresh]_vars

\* two clients redeeming reset tokens at the same time: the steps of their
\* reset_password requests interleave at the awaits
NextRedeem ==
    \/ /\ Idle(2)
       /\ \E email \in Emails, password \in SignupPasswords : signup(1, email, password)
    \/ /\ Idle(2)
       /\ \E email \in Emails : process_forgot_password(1, email)
    \/ create_reset_token_select(1)
    \/ create_reset_token_commit(1)
    \/ create_pending_email(1)
    \/ \E p \in Procs, token \in Presented("reset"), password \in Passwords :
            reset_password(p, token, password)
    \/ \E p \in Procs : reset_password_user(p)
    \/ \E p \in Procs : reset_password_revoke_select(p)
    \/ \E p \in Procs : reset_password_commit(p)
    \/ \E p \in Procs : reset_password_done(p)

SpecRedeem == Init /\ [][NextRedeem]_vars

\* accounts that sign up, log in and log out, the logout carrying any token
\* string handed out so far
NextLogout ==
    \/ \E email \in Emails, password \in SignupPasswords : signup(1, email, password)
    \/ \E email \in Emails, password \in Passwords : login(1, email, password)
    \/ \E u \in DOMAIN users, token \in Presented("refresh") : logout_as(1, u, token)
    \/ \E u \in DOMAIN users : deactivate(u)

SpecLogout == Init /\ [][NextLogout]_vars

\* the session requests
SessionRequest(p) ==
    \/ \E email \in Emails, password \in SignupPasswords : signup(p, email, password)
    \/ \E email \in Emails, password \in Passwords : login(p, email, password)
    \/ \E token \in Presented("refresh") : refresh_access_token(p, token)
    \/ \E token \in Presented("refresh") : logout(p, token)
    \/ \E u \in DOMAIN users : logout_all_devices(p, u)

\* the steps of a session request that follow its first await
SessionStep(p) ==
    \/ refresh_revoke(p)
    \/ refresh_create(p)

\* the sweep of the session table, run between requests
SessionSweep ==
    /\ \A p \in Procs : Idle(p)
    /\ cleanup_expired_refresh_tokens

\* login, refresh and logout, one request at a time, a request possibly cut short
NextSession ==
    \/ SessionRequest(1)
    \/ SessionStep(1)
    \/ \E u \in DOMAIN users : deactivate(u)
    \/ Crash(1)
    \/ SessionSweep
    \/ TickDay

SpecSession == Init /\ [][NextSession]_vars

\* the requests around a password reset
ResetRequest(p) ==
    \/ \E email \in Emails, password \in SignupPasswords : signup(p, email, password)
    \/ \E email \in Emails, password \in Passwords \cup LongPasswords :
            login(p, email, password)
    \/ \E email \in Emails : process_forgot_password(p, email)
    \/ \E token \in Presented("reset"), password \in Passwords \cup LongPasswords :
            reset_password(p, token, password)

\* the steps of these requests that follow their first await
ResetStep(p) ==
    \/ create_reset_token_select(p)
    \/ create_reset_token_commit(p)
    \/ create_pending_email(p)
    \/ reset_password_user(p)
    \/ reset_password_revoke_select(p)
    \/ reset_password_commit(p)
    \/ reset_password_done(p)

\* sessions and password resets within one step of the clock, one request at a
\* time, a request possibly cut short
NextReset ==
    \/ ResetRequest(1)
    \/ ResetStep(1)
    \/ \E u \in DOMAIN users : deactivate(u)
    \/ Crash(1)

SpecReset == Init /\ [][NextReset]_vars

\* the requests that issue and redeem action tokens, two at a time
IssueRequest(p) ==
    \/ \E email \in Emails, password \in SignupPasswords : signup(p, email, password)
    \/ /\ issued.verification = 0
       /\ \E email \in Emails : process_forgot_password(p, email)
    \/ /\ issued.reset = 0
       /\ \E u \in DOMAIN users : resend_verification(p, u)
    \/ \E token \in Presented("verification") : verify_email(p, token)

\* the steps of these requests that follow their first await
IssueStep(p) ==
    \/ create_reset_token_select(p)
    \/ create_reset_token_commit(p)
    \/ create_pending_email(p)
    \/ create_verification_token_select(p)
    \/ create_verification_token_commit(p)
    \/ send_email_verification(p)
    \/ verify_email_user(p)
    \/ verify_email_mark_used(p)
    \/ verify_email_commit(p)
    \/ verify_email_done(p)

\* concurrent requests within one step of the clock: the steps of the two
\* processes interleave at their awaits
NextConcurrent ==
    \/ \E p \in Procs : IssueRequest(p)
    \/ \E p \in Procs : IssueStep(p)

SpecConcurrent == Init /\ [][NextConcurrent]_vars

\* sessions and action tokens issued, presented and swept, one request at a
\* time, the sweeps run between requests.  A run follows the sessions over
\* days or the action tokens over hours: no handler reads both kinds of table
NextSweep ==
    \/ \E email \in Emails, password \in SignupPasswords : signup(1, email, password)
    \/ /\ issued.reset = 0 /\ issued.verification = 0
       /\ \E token \in Presented("refresh") : refresh_access_token(1, token)
    \/ SessionStep(1)
    \/ /\ now <= MaxHours /\ issued.verification = 0
       /\ \E email \in Emails : process_forgot_password(1, email)
    \/ /\ now <= MaxHours /\ issued.reset = 0
       /\ \E u \in DOMAIN users : resend_verification(1, u)
    \/ \E token \in Presented("reset"), password \in SignupPasswords :
            reset_password(1, token, password)
    \/ \E token \in Presented("verification") : verify_email(1, token)
    \/ ActionTokenStep(1)
    \/ Idle(1) /\ cleanup_expired_refresh_tokens
    \/ Idle(1) /\ cleanup_expired_reset_tokens
    \/ Idle(1) /\ cleanup_expired_verification_tokens
    \/ issued.reset + issued.verification > 0 /\ TickHour
    \/ issued.reset = 0 /\ issued.verification = 0 /\ TickDay

SpecSweep == Init /\ [][NextSweep]_vars

\* ================================================== claims

\* the currently valid (unused, unexpired) tokens of account u, per purpose
valid_reset_tokens(u) ==
    {t \in DOMAIN reset_tokens :
        reset_tokens[t].user_id = u /\ PasswordResetToken_is_valid(reset_tokens[t])}
valid_verification_tokens(u) ==
    {t \in DOMAIN verification_tokens :
        /\ verification_tokens[t].user_id = u
        /\ EmailVerificationToken_is_valid(verification_tokens[t])}

AtMostOneValidToken ==
    \A u \in DOMAIN users :
        /\ Cardinality(valid_reset_tokens(u)) <= 1
        /\ Cardinality(valid_verification_tokens(u)) <= 1

\* token t has a successor: a token of the same account issued after it
superseded_reset(t) ==
    /\ t \in DOMAIN reset_tokens
    /\ \E t2 \in DOMAIN reset_tokens :
            t2 > t /\ reset_tokens[t2].user_id = reset_tokens[t].user_id
superseded_verification(t) ==
    /\ t \in DOMAIN verification_tokens
    /\ \E t2 \in DOMAIN verification_tokens :
            t2 > t /\ verification_tokens[t2].user_id = verification_tokens[t].user_id

\* the commit of an issue leaves every earlier token of the account used and the
\* new token as the account's one valid token
IssueInvalidatesEarlier ==
    \A p \in Procs :
        /\ (create_reset_token_commit(p) /\ pc'[p] = "create_pending_email") =>
                /\ \A t \in DOMAIN reset_tokens :
                        reset_tokens[t].user_id = loc[p].uid => reset_tokens'[t].is_used
                /\ loc[p].new \in DOMAIN reset_tokens'
                /\ ~reset_tokens'[loc[p].new].is_used
        /\ (create_verification_token_commit(p) /\ pc'[p] = "send_email_verification") =>
                /\ \A t \in DOMAIN verification_tokens :
                        verification_tokens[t].user_id = loc[p].uid
                            => verification_tokens'[t].is_used
                /\ loc[p].new \in DOMAIN verification_tokens'
                /\ ~verification_tokens'[loc[p].new].is_used

\* reset_password with a superseded token: TokenInvalid, nothing changed
SupersededResetRefused ==
    \A t \in Presented("reset") :
        superseded_reset(t) =>
            \A p \in Procs, password \in Passwords :
                reset_password(p, t, password) =>
                    /\ resp'[p] = HTTPException("reset_password", t, 400,
                        "Invalid or expired password reset token")
                    /\ db' = db

\* verify_email with a superseded token is not answered before the account is loaded
SupersededVerificationLoaded ==
    \A t \in Presented("verification") :
        superseded_verification(t) =>
            \A p \in Procs :
                verify_email(p, t) =>
                    /\ db' = db
                    /\ \/ resp'[p] = HTTPException("verify_email", t, 400,
                        "Invalid or expired verification token")
                       \/ pc'[p] = "verify_email_user"

\* verify_email with a superseded token: TokenInvalid, nothing changed
SupersededVerificationRefused ==
    \A p \in Procs :
        (verify_email_user(p) /\ superseded_verification(loc[p].tok)) =>
            /\ resp'[p] = HTTPException("verify_email", loc[p].tok, 400,
                        "Invalid or expired verification token")
            /\ db' = db

\* verify_email with a superseded token: TokenInvalid, or the idempotent success
\* of an account that is already verified; nothing changed either way
SupersededVerificationRefusedUnlessVerified ==
    \A p \in Procs :
        (verify_email_user(p) /\ superseded_verification(loc[p].tok)) =>
            /\ resp'[p] = IF users[loc[p].uid].is_verified
                           THEN Response("verify_email", loc[p].tok, 200, NoToken)
                           ELSE HTTPException("verify_email", loc[p].tok, 400,
                                    "Invalid or expired verification token")
            /\ db' = db

\* C1 as stated: with issue, redeem and sweep run one at a time, an account has at
\* most one valid token per purpose, an issue marks every earlier token of the
\* account used, and redeeming an earlier token afterwards fails with TokenInvalid,
\* for password-reset and for email-verification tokens alike.
C1_EarlierTokenAlwaysRefused ==
    /\ []AtMostOneValidToken
    /\ [][/\ IssueInvalidatesEarlier
          /\ SupersededResetRefused
          /\ SupersededVerificationLoaded
          /\ SupersededVerificationRefused]_vars

\* C1 amended: as C1, except that verify_email with an earlier verification token
\* answers success, changing nothing, once the account is verified.
C1_OneValidTokenPerPurpose ==
    /\ []AtMostOneValidToken
    /\ [][/\ IssueInvalidatesEarlier
          /\ SupersededResetRefused
          /\ SupersededVerificationLoaded
          /\ SupersededVerificationRefusedUnlessVerified]_vars

\* an unexpired, never redeemed token that a later issue superseded was presented
\* and refused
C1_Witness ==
    /\ resp[1].op = "reset_password"
    /\ resp[1].status = 400
    /\ superseded_reset(resp[1].arg)
    /\ ~PasswordResetToken_is_expired(reset_tokens[resp[1].arg])
    /\ reset_tokens[resp[1].arg].used_at = NoTime

\* C2: after one successful reset_password with a token, every later
\* reset_password with that token fails with TokenInvalid (400) and changes
\* nothing, the password hash included.
C2_ResetTokenRedeemedOnce ==
    [][\A p \in Procs, t \in hist.redeemed, password \in Passwords :
            reset_password(p, t, password) =>
                /\ resp'[p] = HTTPException("reset_password", t, 400,
                        "Invalid or expired password reset token")
                /\ db' = db]_vars

\* a redeemed token was presented again, with another password than the one it
\* had set, and was refused
C2_Witness ==
    /\ resp[1].op = "reset_password"
    /\ resp[1].status = 400
    /\ resp[1].arg \in hist.redeemed
    /\ resp[1].arg \in DOMAIN reset_tokens
    /\ ~PasswordResetToken_is_expired(reset_tokens[resp[1].arg])

\* the sessions of account u
sessions_of(u) == {t \in DOMAIN refresh_tokens : refresh_tokens[t].user_id = u}

\* this step redeems a reset token of account u
RedeemsResetToken(u) ==
    \E k \in DOMAIN reset_tokens \cap DOMAIN reset_tokens' :
        /\ reset_tokens[k].user_id = u
        /\ reset_tokens[k].used_at = NoTime
        /\ reset_tokens'[k].used_at # NoTime
        /\ reset_tokens'[k].is_used

\* this step revokes a session of account u
RevokesSession(u) ==
    \E t \in sessions_of(u) :
        t \in DOMAIN refresh_tokens' /\ ~refresh_tokens[t].is_revoked
            /\ refresh_tokens'[t].is_revoked

\* the new hash, the used mark and the revocation of every session of the
\* account are written by one step or not at all
ResetWrittenTogether ==
    \A u \in DOMAIN users :
        (\/ RedeemsResetToken(u)
         \/ RevokesSession(u)
         \/ users'[u].hashed_password # users[u].hashed_password) =>
            /\ RedeemsResetToken(u)
            /\ \E p \in Procs :
                    users'[u].hashed_password = get_password_hash(loc[p].pw)
            /\ \A t \in sessions_of(u) :
                    t \in DOMAIN refresh_tokens' /\ refresh_tokens'[t].is_revoked

\* C3: when reset_password answers success for account A, every session of A is
\* revoked and no longer passes verify_refresh_token; the new password hash, the
\* used mark of the reset token and the revocations are committed by one step.
C3_ResetRevokesEverySession ==
    [][/\ \A p \in Procs :
            reset_password_done(p) =>
                /\ resp'[p].status = 200
                /\ \A t \in sessions_of(loc[p].uid) :
                        /\ refresh_tokens[t].is_revoked
                        /\ ~verify_refresh_token(t)
                        /\ refresh_tokens'[t] = refresh_tokens[t]
       /\ ResetWrittenTogether]_vars

\* a reset succeeded for an account that had two sessions: both are revoked, the
\* token is used and the hash is the one of the new password
C3_Witness ==
    /\ resp[1].op = "reset_password"
    /\ resp[1].status = 200
    /\ resp[1].arg \in DOMAIN reset_tokens
    /\ reset_tokens[resp[1].arg].used_at # NoTime
    /\ LET u == reset_tokens[resp[1].arg].user_id
       IN /\ Cardinality(sessions_of(u)) >= 2
          /\ \A t \in sessions_of(u) : refresh_tokens[t].is_revoked
          /\ users[u].hashed_password = get_password_hash(<<2>>)

\* C4: with rotation enabled, a successful refresh presenting T adds a session
\* T' # T of the same account and leaves T revoked; every later refresh
\* presenting T is answered 401.
C4_RotationReplacesToken ==
    [][rotation =>
        /\ \A p \in Procs :
              refresh_create(p) =>
                LET T == loc[p].tok
                    Tnew == resp'[p].token
                IN /\ resp'[p] = TokenResponse("refresh", T, 200, Tnew, loc[p].uid)
                   /\ Tnew # T
                   /\ Tnew \notin DOMAIN refresh_tokens
                   /\ Tnew \in DOMAIN refresh_tokens'
                   /\ T \in DOMAIN refresh_tokens'
                   /\ refresh_tokens'[Tnew].user_id = refresh_tokens'[T].user_id
                   /\ ~refresh_tokens'[Tnew].is_revoked
                   /\ refresh_tokens'[T].is_revoked
        /\ \A p \in Procs, t \in hist.rotated :
              refresh_access_token(p, t) =>
                /\ resp'[p] = Response("refresh", t, 401, NoToken)
                /\ db' = db]_vars

\* a token that a rotation replaced was presented again and answered 401, while
\* its replacement is still a valid session
C4_Witness ==
    /\ rotation
    /\ resp[1].op = "refresh"
    /\ resp[1].status = 401
    /\ resp[1].arg \in hist.rotated
    /\ \E t \in DOMAIN refresh_tokens :
            t > resp[1].arg /\ RefreshToken_is_valid(refresh_tokens[t])

\* C9: a rotation that has revoked T ends only with the replacement session
\* created: no request leaves T revoked and no replacement, not even one that is
\* cut short between the two.
C9_RotationNeverHalfDone ==
    [][\A p \in Procs :
            (pc[p] = "refresh_create" /\ pc'[p] = "idle") =>
                \E t \in DOMAIN refresh_tokens' \ DOMAIN refresh_tokens :
                    refresh_tokens'[t].user_id = loc[p].uid]_vars

\* C10: with rotation disabled, a refresh presenting T changes no table, is
\* answered 200 with T itself exactly when T is a stored session that is
\* unrevoked and unexpired and 401 otherwise, and no step changes the expires_at
\* of a session.
C10_NoRotationKeepsToken ==
    [][/\ ~rotation =>
            \A p \in Procs, T \in Presented("refresh") :
                refresh_access_token(p, T) =>
                    /\ db' = db
                    /\ resp'[p] =
                        IF /\ T \in DOMAIN refresh_tokens
                           /\ ~refresh_tokens[T].is_revoked
                           /\ ~RefreshToken_is_expired(refresh_tokens[T])
                        THEN TokenResponse("refresh", T, 200, T,
                                           refresh_tokens[T].user_id)
                        ELSE Response("refresh", T, 401, NoToken)
       /\ \A t \in DOMAIN refresh_tokens \cap DOMAIN refresh_tokens' :
            refresh_tokens'[t].expires_at = refresh_tokens[t].expires_at]_vars

\* with rotation disabled and the clock advanced, a session was presented and
\* answered with itself; it keeps the expiry it was created with
C10_Witness ==
    /\ ~rotation
    /\ now > 0
    /\ resp[1].op = "refresh"
    /\ resp[1].status = 200
    /\ resp[1].token = resp[1].arg
    /\ refresh_tokens[resp[1].arg].expires_at = REFRESH_TOKEN_EXPIRE_DAYS * 24

\* the account that owns verification token t is verified
owner_verified(t) ==
    /\ verification_tokens[t].user_id \in DOMAIN users
    /\ users[verification_tokens[t].user_id].is_verified

\* C5: verify_email with a stored, unexpired token of an account that is already
\* verified succeeds whether or not the token is marked used: it is not refused
\* by verify_token, a token it loaded as used is answered at once with nothing
\* changed, a token it loaded as unused is marked used and nothing else changes;
\* so a second call with the same token succeeds and leaves the state of the first.
C5_VerifyEmailIdempotent ==
    [][\A p \in Procs :
        /\ \A t \in Presented("verification") :
              (/\ verify_email(p, t)
               /\ t \in DOMAIN verification_tokens
               /\ ~EmailVerificationToken_is_expired(verification_tokens[t])
               /\ owner_verified(t)) =>
                    /\ pc'[p] = "verify_email_user"
                    /\ db' = db
        /\ (/\ verify_email_user(p)
            /\ loc[p].uid \in DOMAIN users
            /\ users[loc[p].uid].is_verified) =>
                /\ db' = db
                /\ IF loc[p].used
                   THEN resp'[p] = Response("verify_email", loc[p].tok, 200, NoToken)
                   ELSE pc'[p] = "verify_email_mark_used"
        /\ verify_email_mark_used(p) =>
                /\ resp'[p] = Response("verify_email", loc[p].tok, 200, NoToken)
                /\ users' = users
                /\ users[loc[p].uid].is_verified
                /\ verification_tokens'[loc[p].tok].is_used
                /\ \A t \in DOMAIN verification_tokens \ {loc[p].tok} :
                        verification_tokens'[t] = verification_tokens[t]
                /\ <<refresh_tokens', reset_tokens'>> = <<refresh_tokens, reset_tokens>>]_vars

\* two calls with the same token have both been answered 200; the token is used
\* and its account verified
C5_Witness ==
    \E t \in DOMAIN verification_tokens :
        /\ resp[1] = Response("verify_email", t, 200, NoToken)
        /\ resp[2] = Response("verify_email", t, 200, NoToken)
        /\ verification_tokens[t].is_used
        /\ owner_verified(t)

\* C6: verify_email with an unexpired token that is marked used while its account
\* is not verified is answered 400 and changes nothing: the account stays
\* unverified and the token is as it was.
C6_UsedTokenUnverifiedRefused ==
    [][\A p \in Procs :
        /\ \A t \in Presented("verification") :
              (/\ verify_email(p, t)
               /\ t \in DOMAIN verification_tokens
               /\ ~EmailVerificationToken_is_expired(verification_tokens[t])
               /\ verification_tokens[t].is_used
               /\ ~owner_verified(t)) =>
                    /\ pc'[p] = "verify_email_user"
                    /\ db' = db
        /\ (/\ verify_email_user(p)
            /\ loc[p].tok \in DOMAIN verification_tokens
            /\ verification_tokens[loc[p].tok].is_used
            /\ loc[p].uid \in DOMAIN users
            /\ ~users[loc[p].uid].is_verified) =>
                /\ resp'[p] = HTTPException("verify_email", loc[p].tok, 400,
                        "Invalid or expired verification token")
                /\ db' = db]_vars

\* a token superseded by a resend was presented for an unverified account and
\* refused; the account is still unverified
C6_Witness ==
    /\ resp[1].op = "verify_email"
    /\ resp[1].status = 400
    /\ resp[1].arg \in DOMAIN verification_tokens
    /\ verification_tokens[resp[1].arg].is_used
    /\ ~EmailVerificationToken_is_expired(verification_tokens[resp[1].arg])
    /\ superseded_verification(resp[1].arg)
    /\ ~owner_verified(resp[1].arg)

\* C7: two concurrent issue requests for one account and purpose are serialized:
\* once both have committed and returned, the account has at most one unused,
\* unexpired token of that purpose.
C7_ConcurrentIssueSerialized ==
    (\A p \in Procs : Idle(p)) => AtMostOneValidToken

\* a token invalidated by a later issue (used, never redeemed) has its successor
\* in the table
NoOrphanInvalidation ==
    /\ \A t \in DOMAIN reset_tokens :
          (reset_tokens[t].is_used /\ reset_tokens[t].used_at = NoTime)
              => superseded_reset(t)
    /\ \A t \in DOMAIN verification_tokens :
          (verification_tokens[t].is_used /\ verification_tokens[t].used_at = NoTime)
              => superseded_verification(t)

\* a step that inserts a token of account u or invalidates one inserts exactly
\* one and leaves no earlier token of u unused
IssueAllOrNothing(table, table_next) ==
    \A u \in DOMAIN users :
        LET inserted == {t \in DOMAIN table_next \ DOMAIN table :
                            table_next[t].user_id = u}
            marked == {t \in DOMAIN table \cap DOMAIN table_next :
                            /\ table[t].user_id = u
                            /\ ~table[t].is_used
                            /\ table_next[t].is_used
                            /\ table_next[t].used_at = NoTime}
        IN (inserted # {} \/ marked # {}) =>
                /\ Cardinality(inserted) = 1
                /\ \A t \in DOMAIN table :
                        table[t].user_id = u =>
                            t \in DOMAIN table_next /\ table_next[t].is_used

\* C8: issuing an action token is crash-atomic: the old tokens are marked used and
\* the new token inserted by one step, a request cut short changes no table, and
\* so no state has two valid tokens of an account or an invalidated token whose
\* successor is missing.
C8_IssueCrashAtomic ==
    /\ []AtMostOneValidToken
    /\ []NoOrphanInvalidation
    /\ [][/\ IssueAllOrNothing(reset_tokens, reset_tokens')
          /\ IssueAllOrNothing(verification_tokens, verification_tokens')
          /\ \A p \in Procs : Crash(p) => db' = db]_vars

\* the second issue for an account was cut short before its commit: the first
\* token is still the account's valid token and the second is in no table
C8_Witness ==
    /\ pc[1] = "idle"
    /\ resp[1] = NoResponse
    /\ issued.reset = 2
    /\ DOMAIN reset_tokens = {1}
    /\ PasswordResetToken_is_valid(reset_tokens[1])

\* the accounts stored under `email` whose password is `password`
accounts_with(email, password) ==
    {u \in DOMAIN users :
        /\ users[u].email = email
        /\ verify_password(password, users[u].hashed_password)}

\* C12: login answers the same 401 "Incorrect email or password" for an unknown
\* email and for a wrong password, changing nothing; it answers 403 exactly when
\* the email is stored, the password is right and the account is inactive, so an
\* inactive account with a wrong password gets the 401.
C12_LoginErrorsDoNotTellWhich ==
    [][\A p \in Procs, email \in Emails, password \in Passwords \cup LongPasswords :
            (/\ resp'[p].op = "login"
             /\ resp'[p].email = email
             /\ login(p, email, password)) =>
                LET right == accounts_with(email, password)
                IN /\ right = {} =>
                        /\ resp'[p] = ToEmail(email, HTTPException("login", NoToken, 401,
                                                    "Incorrect email or password"))
                        /\ db' = db
                   /\ resp'[p].status = 403 <=>
                        (right # {} /\ \A u \in right : ~users[u].is_active)
                   /\ resp'[p].status \in {200, 401, 403}]_vars

\* a login for a stored, inactive account was answered 401
C12_Witness ==
    /\ resp[1].op = "login"
    /\ resp[1].status = 401
    /\ resp[1].detail = "Incorrect email or password"
    /\ \E u \in DOMAIN users : users[u].email = resp[1].email /\ ~users[u].is_active
    /\ \E e \in Emails : get_by_email(e) = {}

\* C13: signup with an email that is stored (exact match) answers 400 "Email
\* already registered" and adds neither account nor session; a successful signup
\* adds one account with is_verified false, is_active true and role "user".
C13_SignupDuplicateEmail ==
    [][\A p \in Procs, email \in Emails, password \in SignupPasswords :
            signup(p, email, password) =>
                IF \E u \in DOMAIN users : users[u].email = email
                THEN /\ resp'[p] = ToEmail(email, HTTPException("signup", NoToken, 400,
                                                    "Email already registered"))
                     /\ db' = db
                ELSE /\ resp'[p].status = 201
                     /\ \E u \in DOMAIN users' \ DOMAIN users :
                            /\ DOMAIN users' = DOMAIN users \cup {u}
                            /\ users'[u].email = email
                            /\ ~users'[u].is_verified
                            /\ users'[u].is_active
                            /\ users'[u].role = "user"
                            /\ verify_password(password, users'[u].hashed_password)
                     /\ \A u \in DOMAIN users : users'[u] = users[u]]_vars

\* a signup for "a@x.com" was refused as a duplicate while "A@x.com", which
\* differs from it in case only, is registered as an account of its own
C13_Witness ==
    /\ resp[1].op = "signup"
    /\ resp[1].status = 400
    /\ resp[1].email = "a@x.com"
    /\ Cardinality(get_by_email("a@x.com")) = 1
    /\ Cardinality(get_by_email("A@x.com")) = 1
    /\ Cardinality(DOMAIN users) = 2

\* C14: a login that follows a successful signup at once, with the same email and
\* password, is answered 200 with an access token of the new account and a new
\* refresh token that is valid.
C14_LoginAfterSignup ==
    [][\A p \in Procs, email \in Emails, password \in SignupPasswords :
            (/\ resp[p].op = "signup"
             /\ resp[p].status = 201
             /\ resp[p].email = email
             /\ resp[p].access \in accounts_with(email, password)
             /\ users[resp[p].access].is_active
             /\ login(p, email, password)) =>
                LET u == resp[p].access
                    tok == resp'[p].token
                IN /\ resp'[p] = ToEmail(email, TokenResponse("login", NoToken, 200, tok, u))
                   /\ tok \notin DOMAIN refresh_tokens
                   /\ tok \in DOMAIN refresh_tokens'
                   /\ refresh_tokens'[tok].user_id = u
                   /\ ~refresh_tokens'[tok].is_revoked
                   /\ refresh_tokens'[tok].expires_at > now]_vars

\* a login was answered 200 for an account that has just its signup session and
\* the session of this login, both valid
C14_Witness ==
    /\ resp[1].op = "login"
    /\ resp[1].status = 200
    /\ resp[1].access \in DOMAIN users
    /\ resp[1].token \in sessions_of(resp[1].access)
    /\ Cardinality(sessions_of(resp[1].access)) = 2
    /\ \A t \in sessions_of(resp[1].access) : RefreshToken_is_valid(refresh_tokens[t])
    /\ DOMAIN reset_tokens = {}

\* login succeeds or fails by the stored hash alone: 401 exactly when no account
\* under the email verifies the password
LoginDecidedByStoredHash ==
    \A p \in Procs, email \in Emails, password \in Passwords \cup LongPasswords :
        (/\ resp'[p].op = "login"
         /\ resp'[p].email = email
         /\ login(p, email, password)) =>
            (resp'[p].status = 401 <=> accounts_with(email, password) = {})

\* the commit of a reset by p leaves the new password verifying against the
\* stored hash and no password of the set `others` doing so
ResetReplacesPassword(p, others) ==
    (reset_password_commit(p) /\ pc'[p] = "reset_password_done") =>
        LET u == loc[p].uid
        IN /\ verify_password(loc[p].pw, users'[u].hashed_password)
           /\ \A previous \in others :
                verify_password(previous, users[u].hashed_password) =>
                    ~verify_password(previous, users'[u].hashed_password)

C16_InactiveGetsNoToken ==
    [][\A p \in Procs :
            (resp'[p] # resp[p] /\ resp'[p].access # NoUser) =>
                users'[resp'[p].access].is_active]_vars

\* ---------------------------------------------------------------------------
\* the rate-limited endpoints
\* ---------------------------------------------------------------------------

\* a check_rate_limit task runs in this step
TaskRuns == tasks # << >> /\ tasks' = Tail(tasks)

\* C11: POST /forgot-password answers the generic 200 confirmation, for an
\* email that has an account and for one that has none
C11_ForgotPasswordAlways200 ==
    \A p \in Procs :
        resp[p].op = "POST /forgot-password"
        => resp[p] = ToEmail(resp[p].email,
                        Response("POST /forgot-password", NoToken, 200, NoToken))

\* C17: a request whose rate-limit check raised 429 is answered 429
C17_RejectedRequestAnswered429 ==
    \A p \in Procs :
        /\ Idle(p)
        /\ tasks = << >>
        /\ resp[p].op \in {"POST /forgot-password", "POST /reset-password"}
        /\ raised[p].status = 429
        => resp[p].status = 429

\* C18: a reset-password check of a client leaves the decision of a
\* forgot-password check of the same client as it was
C18_OtherCategoryUndisturbed ==
    [][TaskRuns /\ Head(tasks).dependency = "rate_limit_reset_password"
       => \A request \in {Head(tasks).request} :
             check_rate_limit(request,
                              rate_limit_forgot_password.max_requests,
                              rate_limit_forgot_password.window_seconds).status'
             = check_rate_limit(request,
                                rate_limit_forgot_password.max_requests,
                                rate_limit_forgot_password.window_seconds).status]_vars

\* C19: when check_rate_limit raises 429, Retry-After is the number of whole
\* seconds left until the stored window start plus the window, and lies
\* between 0 and the window
C19_RetryAfterIsRemainingSeconds ==
    [][TaskRuns /\ raised'[Head(tasks).p].status = 429
       => LET task == Head(tasks)
              client_ip == _get_client_ip(task.request)
              seconds == raised'[task.p].retry_after
          IN /\ client_ip \in DOMAIN _storage
             /\ LET remaining == _storage[client_ip].window_start
                                 + task.window_seconds * 1000 - utcnow
                IN /\ seconds * 1000 <= remaining
                   /\ remaining < (seconds + 1) * 1000
             /\ 0 <= seconds
             /\ seconds <= task.window_seconds]_vars

\* a check rejected half a second short of half a window after the window
\* started: the half second is cut off
C19_Witness ==
    \E p \in Procs :
        /\ tasks = << >>
        /\ raised[p].status = 429
        /\ raised[p].retry_after > 0
        /\ raised[p].window_start + timedelta(rate_limit_forgot_password.window_seconds)
           - utcnow > raised[p].retry_after * 1000

\* C20: a check made when the stored window is over is accepted, whatever the
\* count, and stores count 1 and the time of the check as window start
C20_WindowResets ==
    [][TaskRuns
       => LET task == Head(tasks)
              client_ip == _get_client_ip(task.request)
          IN /\ client_ip \in DOMAIN _storage
             /\ utcnow >= _storage[client_ip].window_start
                          + task.window_seconds * 1000
             => /\ raised'[task.p].status = NoStatus
                /\ _storage'[client_ip] = [count |-> 1, window_start |-> utcnow]]_vars

\* a check made exactly one window after the window started, on a count that
\* had reached the limit
C20_Witness ==
    \E p \in Procs, request \in Requests :
        /\ tasks = << >>
        /\ raised[p].status = NoStatus
        /\ raised[p].count >= rate_limit_forgot_password.max_requests
        /\ utcnow = raised[p].window_start
                    + timedelta(rate_limit_forgot_password.window_seconds)
        /\ _get_client_ip(request) \in DOMAIN _storage
        /\ _storage[_get_client_ip(request)] = [count |-> 1, window_start |-> utcnow]

\* ---------------------------------------------------------------------------
\* logout-all
\* ---------------------------------------------------------------------------

\* C21: logout-all leaves no unrevoked session of the caller, changes nothing
\* but is_revoked in the caller's sessions, and leaves every other session and
\* the set of sessions as they were
C21_LogoutAllRevokesOnlyOwn ==
    [][\A p \in Procs, u \in DOMAIN users :
            logout_all_devices(p, u)
            => /\ DOMAIN refresh_tokens' = DOMAIN refresh_tokens
               /\ \A t \in DOMAIN refresh_tokens :
                    IF refresh_tokens[t].user_id = u
                    THEN refresh_tokens'[t] =
                            [refresh_tokens[t] EXCEPT !.is_revoked = TRUE]
                    ELSE refresh_tokens'[t] = refresh_tokens[t]]_vars

\* logout-all has answered; the caller had a session and has none left that is
\* unrevoked, another account still has one
C21_Witness ==
    /\ resp[1].op = "logout_all"
    /\ \E u, v \in DOMAIN users :
        /\ u # v
        /\ sessions_of(u) # {}
        /\ \A t \in sessions_of(u) : refresh_tokens[t].is_revoked
        /\ \E t \in sessions_of(v) : ~refresh_tokens[t].is_revoked

\* ---------------------------------------------------------------------------
\* expiry
\* ---------------------------------------------------------------------------

\* C22: a reset token or verification token presented when the clock has
\* reached its expires_at is rejected with 400
C22_RejectedFromExpiresAt ==
    [][\A p \in Procs :
        /\ \A token \in DOMAIN reset_tokens, password \in Passwords :
                /\ now >= reset_tokens[token].expires_at
                /\ reset_password(p, token, password)
                => resp'[p] = HTTPException("reset_password", token, 400,
                        "Invalid or expired password reset token")
        /\ \A token \in DOMAIN verification_tokens :
                /\ now >= verification_tokens[token].expires_at
                /\ verify_email(p, token)
                => resp'[p].status = 400]_vars

\* ---------------------------------------------------------------------------
\* failed password resets
\* ---------------------------------------------------------------------------

\* C23: the steps of a reset_password call that ends in 400, 403 or 404 leave
\* the accounts, the reset tokens and the sessions as they were
C23_FailedResetChangesNothing ==
    [][\A p \in Procs :
        /\ \A token \in Presented("reset"),
              password \in Passwords \cup LongPasswords :
                reset_password(p, token, password) => db' = db
        /\ /\ reset_password_user(p)
           /\ resp'[p].status \in {403, 404}
           => db' = db]_vars

\* a reset refused with 403: the token is still unused, the hash is the one
\* stored at signup and the session of the account is still unrevoked
C23_Witness ==
    \E t \in DOMAIN reset_tokens :
        /\ resp[1] = HTTPException("reset_password", t, 403,
                        "User account is inactive")
        /\ ~reset_tokens[t].is_used
        /\ reset_tokens[t].used_at = NoTime
        /\ \E s \in sessions_of(reset_tokens[t].user_id) : ~refresh_tokens[s].is_revoked
        /\ \E password \in SignupPasswords :
            users[reset_tokens[t].user_id].hashed_password = get_password_hash(password)

\* ---------------------------------------------------------------------------
\* registration
\* ---------------------------------------------------------------------------

\* C24: no two accounts have the same email
C24_EmailUnique ==
    \A u, v \in DOMAIN users : users[u].email = users[v].email => u = v

\* two registrations of one email passed the duplicate check together; one
\* created the account, the other was refused by the index
C24_Witness ==
    \E p, q \in Procs :
        /\ resp[p].op = "signup" /\ resp[p].status = 201
        /\ resp[q].op = "signup" /\ resp[q].status = 500
        /\ resp[p].email = resp[q].email
        /\ Cardinality(get_by_email(resp[p].email)) = 1

\* ---------------------------------------------------------------------------
\* failed notifications
\* ---------------------------------------------------------------------------

\* C25: a signup whose welcome notification fails has created the account and
\* its session; a send_verification_email whose notification fails leaves the
\* new token valid and the older tokens of the account used
C25_FailedNotificationKeepsCommit ==
    [][\A p \in Procs :
        /\ \A email \in Emails, password \in SignupPasswords :
                signup_unsent(p, email, password)
                => \E u \in DOMAIN users' \ DOMAIN users :
                    /\ users'[u].email = email
                    /\ verify_password(password, users'[u].hashed_password)
                    /\ \E t \in DOMAIN refresh_tokens' \ DOMAIN refresh_tokens :
                        /\ refresh_tokens'[t].user_id = u
                        /\ ~refresh_tokens'[t].is_revoked
        /\ send_email_verification_unsent(p)
           => /\ loc[p].new \in DOMAIN verification_tokens'
              /\ verification_tokens'[loc[p].new].user_id = loc[p].uid
              /\ ~verification_tokens'[loc[p].new].is_used
              /\ \A t \in loc[p].old :
                    t \in DOMAIN verification_tokens'
                    /\ verification_tokens'[t].is_used]_vars

\* both requests were answered 500 for the notification: the account is there
\* with its session, and it has a new unused token and an older used one
C25_Witness ==
    /\ resp[2].op = "signup" /\ resp[2].status = 500
    /\ \E u \in get_by_email(resp[2].email) :
            \E t \in sessions_of(u) : ~refresh_tokens[t].is_revoked
    /\ resp[1].op = "resend_verification" /\ resp[1].status = 500
    /\ \E t, old \in DOMAIN verification_tokens :
        /\ verification_tokens[t].user_id = verification_tokens[old].user_id
        /\ ~verification_tokens[t].is_used
        /\ verification_tokens[old].is_used

\* ---------------------------------------------------------------------------
\* what a rejection tells
\* ---------------------------------------------------------------------------

\* reset_password with a token that is absent, expired or used answers the one
\* 400; so does verify_email with a token that is absent or expired
UnusableTokenRefusedAtLookup(p) ==
    /\ \A token \in Presented("reset"), password \in Passwords :
            /\ reset_password(p, token, password)
            /\ \/ token \notin DOMAIN reset_tokens
               \/ PasswordResetToken_is_expired(reset_tokens[token])
               \/ reset_tokens[token].is_used
            => resp'[p] = HTTPException("reset_password", token, 400,
                                        "Invalid or expired password reset token")
    /\ \A token \in Presented("verification") :
            /\ verify_email(p, token)
            /\ \/ token \notin DOMAIN verification_tokens
               \/ EmailVerificationToken_is_expired(verification_tokens[token])
            => resp'[p] = HTTPException("verify_email", token, 400,
                                        "Invalid or expired verification token")

\* C26 as stated: an absent, an expired and a used token get the same 400 with
\* the same message, from reset_password and from verify_email
C26_UnusableTokensAnsweredAlike ==
    [][\A p \in Procs :
        /\ UnusableTokenRefusedAtLookup(p)
        /\ verify_email_user(p) /\ loc[p].used
           => resp'[p] = HTTPException("verify_email", loc[p].tok, 400,
                                       "Invalid or expired verification token")]_vars

\* C26: whenever reset_password or verify_email refuses a token because it is
\* absent, expired or used, the 400 and its message are the same; verify_email
\* refuses a used token only while its account is unverified, and answers
\* success once the account is verified
C26_RejectionsAlike ==
    [][\A p \in Procs :
        /\ UnusableTokenRefusedAtLookup(p)
        /\ verify_email_user(p) /\ loc[p].used /\ loc[p].uid \in DOMAIN users
           => IF users[loc[p].uid].is_verified
              THEN resp'[p] = Response("verify_email", loc[p].tok, 200, NoToken)
              ELSE resp'[p] = HTTPException("verify_email", loc[p].tok, 400,
                                    "Invalid or expired verification token")]_vars

\* a used, unexpired token of an unverified account was refused with the
\* message an absent token gets
C26_Witness ==
    \E t \in DOMAIN verification_tokens :
        /\ resp[1] = HTTPException("verify_email", t, 400,
                                   "Invalid or expired verification token")
        /\ verification_tokens[t].is_used
        /\ ~EmailVerificationToken_is_expired(verification_tokens[t])
        /\ ~users[verification_tokens[t].user_id].is_verified

\* ---------------------------------------------------------------------------
\* access tokens and revoked sessions
\* ---------------------------------------------------------------------------

\* C27: an access token the service issued is accepted by get_current_user
\* exactly while its expiry has not passed and its account exists and is
\* active, whatever has happened to the sessions of the account; past its
\* expiry it is refused with 401
C27_AccessTokenOutlivesSessions ==
    [][\A p, q \in Procs :
        /\ resp[q].access # NoUser
        /\ get_current_user(p, access_token(resp[q]))
        => LET u == resp[q].access
           IN /\ resp'[p].status = 200
                 <=> /\ timegm_utcnow <= resp[q].exp
                     /\ u \in DOMAIN users
                     /\ users[u].is_active
              /\ resp'[p].status = 200 => resp'[p].email = users[u].email
              /\ timegm_utcnow > resp[q].exp => resp'[p].status = 401]_vars

\* the access token handed out with a session was accepted a quarter of an
\* hour later, after a password reset had revoked every session of the account
C27_Witness ==
    \E u \in DOMAIN users :
        /\ resp[2].access = u
        /\ resp[1] = ToEmail(users[u].email,
                             Response("get_current_user", NoToken, 200, NoToken))
        /\ sessions_of(u) # {}
        /\ \A t \in sessions_of(u) : refresh_tokens[t].is_revoked
        /\ \E t \in hist.redeemed : reset_tokens[t].user_id = u
        /\ timegm_utcnow > resp[2].exp - ACCESS_TOKEN_EXPIRE_MINUTES * 60
        /\ timegm_utcnow <= resp[2].exp

\* ---------------------------------------------------------------------------
\* terminal states
\* ---------------------------------------------------------------------------

\* C28: no step takes is_used of a reset or verification token, or is_revoked
\* of a session, from true back to false; a reset token or a session that
\* would be refused now (used, revoked or expired) is refused after every step
C28_UsedAndRevokedAreTerminal ==
    [][/\ \A t \in DOMAIN reset_tokens :
            /\ t \in DOMAIN reset_tokens' /\ reset_tokens[t].is_used
               => reset_tokens'[t].is_used
            /\ ~verify_reset_token(t) => ~verify_reset_token(t)'
       /\ \A t \in DOMAIN verification_tokens :
            t \in DOMAIN verification_tokens' /\ verification_tokens[t].is_used
            => verification_tokens'[t].is_used
       /\ \A t \in DOMAIN refresh_tokens :
            /\ t \in DOMAIN refresh_tokens' /\ refresh_tokens[t].is_revoked
               => refresh_tokens'[t].is_revoked
            /\ ~verify_refresh_token(t) => ~verify_refresh_token(t)']_vars

\* a redeemed reset token was presented again and refused, a newer token has
\* been issued since, and the session the reset revoked is still revoked
C28_Witness ==
    \E t \in hist.redeemed, later \in DOMAIN reset_tokens :
        /\ t \in DOMAIN reset_tokens
        /\ later > t
        /\ reset_tokens[t].is_used
        /\ resp[1] = HTTPException("reset_password", t, 400,
                                   "Invalid or expired password reset token")
        /\ \E s \in sessions_of(reset_tokens[t].user_id) : refresh_tokens[s].is_revoked

\* ---------------------------------------------------------------------------
\* password hashing
\* ---------------------------------------------------------------------------

\* the two passwords are longer than bcrypt's input and share the bytes bcrypt
\* takes
SharePrefix(password, other) ==
    /\ Len(password) > BcryptMaxBytes
    /\ Len(other) > BcryptMaxBytes
    /\ SubSeq(password, 1, BcryptMaxBytes) = SubSeq(other, 1, BcryptMaxBytes)

\* C29: every password verifies against its own hash, and against the hash of
\* any password it shares its first 72 bytes with when both are longer than 72
\* bytes; a login with such a password succeeds
C29_TruncationConsistent ==
    [][\A p \in Procs, email \in Emails, password \in HashLoginPasswords :
        login(p, email, password)
        => \A u \in get_by_email(email), registered \in HashSignupPasswords :
            /\ users[u].is_active
            /\ users[u].hashed_password = get_password_hash(registered)
            /\ registered = password \/ SharePrefix(registered, password)
            => /\ verify_password(password, get_password_hash(registered))
               /\ resp'[p].status = 200
               /\ resp'[p].access = u]_vars

\* a login succeeded on the account registered with the password whose 72nd
\* byte starts a two-byte character; no password presented at login equals it
C29_Witness ==
    \E u \in DOMAIN users :
        /\ users[u].hashed_password = get_password_hash(MultiBytePassword(168))
        /\ MultiBytePassword(168) \notin HashLoginPasswords
        /\ resp[1].op = "login"
        /\ resp[1].status = 200
        /\ resp[1].access = u

\* ---------------------------------------------------------------------------
\* password reset against token refresh
\* ---------------------------------------------------------------------------

\* C30: once reset_password for an account has answered success, no refresh
\* token of the account is valid.  Where the only sessions are the one opened
\* at signup and the ones /refresh derives from it, every refresh token of the
\* account stems from a session older than the reset.
C30_NoLiveSessionAfterReset ==
    /\ resp[1].op = "reset_password"
    /\ resp[1].status = 200
    => \A t \in DOMAIN refresh_tokens :
        refresh_tokens[t].user_id = reset_tokens[resp[1].arg].user_id
        => ~RefreshToken_is_valid(refresh_tokens[t])

\* ---------------------------------------------------------------------------
\* concurrent token refresh
\* ---------------------------------------------------------------------------

\* C31: with rotation enabled, no two /refresh requests that presented the same
\* token are both answered with a new refresh token
C31_TokenExchangedOnce ==
    rotation =>
        \A p, q \in Procs :
            (/\ p # q
             /\ resp[p].op = "refresh"
             /\ resp[q].op = "refresh"
             /\ resp[p].arg = resp[q].arg)
            => ~(resp[p].status = 200 /\ resp[q].status = 200)

\* ---------------------------------------------------------------------------
\* concurrent password reset
\* ---------------------------------------------------------------------------

\* C32: no two reset_password requests that carried the same token both succeed
C32_TokenRedeemedOnceConcurrently ==
    \A p, q \in Procs :
        (/\ p # q
         /\ resp[p].op = "reset_password"
         /\ resp[q].op = "reset_password"
         /\ resp[p].arg = resp[q].arg)
        => ~(resp[p].status = 200 /\ resp[q].status = 200)

\* ---------------------------------------------------------------------------
\* redeemed verification tokens
\* ---------------------------------------------------------------------------

CountWithinPolicy ==
    \A ip \in DOMAIN _storage :
        _storage[ip].count <= rate_limit_forgot_password.max_requests

\* a check_rate_limit call counts itself exactly when it is accepted: in the
\* current window an accepted call adds one to the stored count and a rejected
\* call leaves it, a call is rejected exactly when the count has reached
\* max_requests, and the first call of a window stores the count 1
CountIsAcceptedCalls ==
    TaskRuns =>
        \A task \in {Head(tasks)}, client_ip \in {_get_client_ip(Head(tasks).request)} :
            /\ IF /\ client_ip \in DOMAIN _storage
                  /\ same_window(_storage[client_ip].window_start, task.window_seconds)
               THEN /\ raised'[task.p].status = 429
                        <=> _storage[client_ip].count >= task.max_requests
                    /\ _storage'[client_ip].window_start
                        = _storage[client_ip].window_start
                    /\ _storage'[client_ip].count =
                        IF raised'[task.p].status = 429
                        THEN _storage[client_ip].count
                        ELSE _storage[client_ip].count + 1
               ELSE /\ raised'[task.p].status = NoStatus
                    /\ _storage'[client_ip] = [count |-> 1, window_start |-> utcnow]
            /\ \A ip \in DOMAIN _storage \ {client_ip} :
                    ip \in DOMAIN _storage' /\ _storage'[ip] = _storage[ip]

\* C35: for one client key and one policy, however the concurrent calls of
\* check_rate_limit are ordered, the stored count is the number of calls
\* accepted in the current window and never exceeds max_requests
C35_AcceptedWithinLimit ==
    /\ []CountWithinPolicy
    /\ [][CountIsAcceptedCalls]_vars

\* of two calls for one key that waited together the first was accepted as the
\* last of the window and the second rejected
C35_Witness ==
    \E p, q \in Procs, ip \in DOMAIN _storage :
        /\ p # q
        /\ tasks = << >>
        /\ raised[p].status = NoStatus
        /\ raised[p].count = rate_limit_forgot_password.max_requests - 1
        /\ raised[q].status = 429
        /\ raised[q].window_start = raised[p].window_start
        /\ _storage[ip].window_start = raised[p].window_start
        /\ _storage[ip].count = rate_limit_forgot_password.max_requests

\* ---------------------------------------------------------------------------
\* logout and the owner of the session
\* ---------------------------------------------------------------------------

\* C36: a logout authenticated as one account that presents the refresh token
\* of another account leaves that token as it was
C36_LogoutRevokesOnlyOwn ==
    [][\A p \in Procs, current_user \in DOMAIN users, token \in DOMAIN refresh_tokens :
        (/\ refresh_tokens[token].user_id # current_user
         /\ logout_as(p, current_user, token))
        => refresh_tokens'[token] = refresh_tokens[token]]_vars

\* ---------------------------------------------------------------------------
\* failed notifications and the answer
\* ---------------------------------------------------------------------------

\* C37: a signup whose welcome notification fails still answers 201 with its
\* token pair, and a resend-verification whose notification fails still
\* answers 200
C37_FailedNotificationStillSucceeds ==
    [][\A p \in Procs :
        /\ \A email \in Emails, password \in SignupPasswords :
                signup_unsent(p, email, password)
                => /\ resp'[p].status = 201
                   /\ resp'[p].token \in DOMAIN refresh_tokens'
                   /\ resp'[p].access \in DOMAIN users'
        /\ send_email_verification_unsent(p)
           => resp'[p].status = 200]_vars

\* ---------------------------------------------------------------------------
\* rejected calls and the lockout
\* ---------------------------------------------------------------------------

\* C38: a rejected check_rate_limit call leaves the stored counts and window
\* starts as they were, and a call made window_seconds or more after the
\* stored window start is accepted whatever was rejected in between
C38_RejectionExtendsNothing ==
    [][TaskRuns =>
        \A task \in {Head(tasks)}, client_ip \in {_get_client_ip(Head(tasks).request)} :
            /\ raised'[task.p].status = 429 => _storage' = _storage
            /\ (/\ client_ip \in DOMAIN _storage
                /\ utcnow - _storage[client_ip].window_start
                    >= timedelta(task.window_seconds))
               => /\ raised'[task.p].status = NoStatus
                  /\ _storage'[client_ip].count = 1]_vars

\* a client that was rejected in a full window is accepted exactly
\* window_seconds after that window started
C38_Witness ==
    \E p, q \in Procs :
        /\ p # q
        /\ tasks = << >>
        /\ raised[q].status = 429
        /\ raised[p].status = NoStatus
        /\ raised[p].window_start = raised[q].window_start
        /\ raised[p].count >= rate_limit_forgot_password.max_requests
        /\ utcnow - raised[p].window_start
            = timedelta(rate_limit_forgot_password.window_seconds)

\* ---------------------------------------------------------------------------
\* pruning of the limiter map
\* ---------------------------------------------------------------------------

\* a check_rate_limit call removes no entry unless the map holds more than
\* CleanupThreshold clients
PrunesAboveThresholdOnly ==
    TaskRuns /\ Cardinality(DOMAIN _storage) <= CleanupThreshold
    => DOMAIN _storage \subseteq DOMAIN _storage'

\* a call never removes an entry whose window is open, and the caller is
\* rejected, or counted, by the entry it had when its window is open
PruningGrantsNothing ==
    TaskRuns =>
        \A task \in {Head(tasks)}, client_ip \in {_get_client_ip(Head(tasks).request)} :
            /\ \A ip \in DOMAIN _storage \ DOMAIN _storage' :
                    ~same_window(_storage[ip].window_start, task.window_seconds)
            /\ (/\ client_ip \in DOMAIN _storage
                /\ same_window(_storage[client_ip].window_start, task.window_seconds))
               => /\ raised'[task.p].status = 429
                        <=> _storage[client_ip].count >= task.max_requests
                  /\ _storage'[client_ip].window_start
                        = _storage[client_ip].window_start

\* above the threshold a call removes, of the entries of the other clients,
\* exactly those whose window has been closed for more than `windows` windows
PrunesClosedFor(windows) ==
    TaskRuns /\ Cardinality(DOMAIN _storage) > CleanupThreshold
    => \A task \in {Head(tasks)}, client_ip \in {_get_client_ip(Head(tasks).request)} :
        \A ip \in DOMAIN _storage \ {client_ip} :
            ip \notin DOMAIN _storage'
            <=> utcnow - (_storage[ip].window_start + timedelta(task.window_seconds))
                    > timedelta(task.window_seconds * windows)

\* C39 as stated: pruning runs only above the threshold of 1000 clients,
\* removes exactly the entries whose window closed more than twice the window
\* length ago, never removes an entry whose window is open, and grants no
\* client an extra accepted call within a window
C39_PrunesWindowsClosedTwiceTheLength ==
    [][/\ PrunesAboveThresholdOnly
       /\ PrunesClosedFor(2)
       /\ PruningGrantsNothing]_vars

\* C39 amended: as C39, the entries removed being exactly those whose window
\* started more than twice the window length ago, that is, closed more than
\* one window length ago
C39_PrunesWindowsStartedTwiceTheLength ==
    [][/\ PrunesAboveThresholdOnly
       /\ PrunesClosedFor(1)
       /\ PruningGrantsNothing]_vars

\* a call has pruned the map, and an entry whose window started exactly two
\* window lengths ago is still there
C39_Witness ==
    /\ tasks = << >>
    /\ Cardinality(DOMAIN _storage) < CleanupThreshold - 1
    /\ \E ip \in DOMAIN _storage :
        utcnow - _storage[ip].window_start
            = timedelta(rate_limit_forgot_password.window_seconds * 2)

\* ---------------------------------------------------------------------------
\* the expiry sweeps
\* ---------------------------------------------------------------------------

\* the step from `table` to `table_next` deletes the rows whose expires_at has
\* passed, used or not, revoked or not, and changes no other row
DeletesExpiredRows(table, table_next) ==
    /\ DOMAIN table \ DOMAIN table_next
        = {t \in DOMAIN table : table[t].expires_at < now}
    /\ \A t \in DOMAIN table_next : t \in DOMAIN table /\ table_next[t] = table[t]

\* each sweep deletes the expired rows of its table only, and the lookup that
\* decides verify_refresh_token, reset_password and verify_email gives for
\* every token string the same result after the sweep as before it
SweepKeepsLookups ==
    /\ cleanup_expired_refresh_tokens
        => /\ DeletesExpiredRows(refresh_tokens, refresh_tokens')
           /\ \A token \in Presented("refresh") :
                verify_refresh_token(token)' = verify_refresh_token(token)
    /\ cleanup_expired_reset_tokens
        => /\ DeletesExpiredRows(reset_tokens, reset_tokens')
           /\ \A token \in Presented("reset") :
                verify_reset_token(token)' = verify_reset_token(token)
    /\ cleanup_expired_verification_tokens
        => /\ DeletesExpiredRows(verification_tokens, verification_tokens')
           /\ \A token \in Presented("verification") :
                verify_token(token)' = verify_token(token)

\* a token string whose row is gone is answered as one whose row is there and
\* expired: 401 by /refresh, 400 with the one message by reset_password and by
\* verify_email, nothing changed
SweptAnsweredAsExpired ==
    \A p \in Procs :
        /\ \A token \in Presented("refresh") :
            (/\ \/ token \notin DOMAIN refresh_tokens
                \/ RefreshToken_is_expired(refresh_tokens[token])
             /\ refresh_access_token(p, token))
            => /\ resp'[p] = Response("refresh", token, 401, NoToken)
               /\ db' = db
        /\ \A token \in Presented("reset"), password \in SignupPasswords :
            (/\ \/ token \notin DOMAIN reset_tokens
                \/ PasswordResetToken_is_expired(reset_tokens[token])
             /\ reset_password(p, token, password))
            => /\ resp'[p] = HTTPException("reset_password", token, 400,
                                "Invalid or expired password reset token")
               /\ db' = db
        /\ \A token \in Presented("verification") :
            (/\ \/ token \notin DOMAIN verification_tokens
                \/ EmailVerificationToken_is_expired(verification_tokens[token])
             /\ verify_email(p, token))
            => /\ resp'[p] = HTTPException("verify_email", token, 400,
                                "Invalid or expired verification token")
               /\ db' = db

\* C40: the sweeps of the sessions, the reset tokens and the verification
\* tokens delete exactly the rows whose expires_at has passed, whatever their
\* flag, and for every token string verify_refresh_token, reset_password and
\* verify_email give the same outcome whether or not a sweep ran before
C40_SweepsTransparent ==
    [][SweepKeepsLookups /\ SweptAnsweredAsExpired]_vars

\* a redeemed reset token was swept after its expiry, presented again and
\* refused as an expired one is
C40_Witness ==
    /\ resp[1] = HTTPException("reset_password", resp[1].arg, 400,
                    "Invalid or expired password reset token")
    /\ resp[1].arg \in hist.redeemed
    /\ resp[1].arg \notin DOMAIN reset_tokens

====
